---- MODULE Spec2Model ----
(***************************************************************************)
(* Model of the Red64 core plugin's context-assembly pipeline:             *)
(*   - scripts/budget-manager.py : token budget allocation (manage_budget) *)
(*   - scripts/context-loader.py : the UserPromptSubmit orchestrator       *)
(*                                                                         *)
(* Text is a string, that is a sequence of characters: len(), slicing and  *)
(* concatenation are Len, SubSeq and \o, as the code performs them.        *)
(* A Python dict with optional keys is a record whose DOMAIN holds exactly *)
(* the keys that are present.                                              *)
(***************************************************************************)
EXTENDS Integers, Sequences, FiniteSets, TLC

(***************************************************************************)
(* Bounds of the model.                                                    *)
(***************************************************************************)
MaxItems == 3

(***************************************************************************)
(* Program constants.                                                      *)
(***************************************************************************)
CHARS_PER_TOKEN == 4
DEFAULT_MAX_TOKENS == 3000

\* budget-manager.py, manage_budget called on its own.
VARIABLES
    context_items,      \* manage_budget argument: list of ContextItem
    max_tokens,         \* manage_budget argument
    overflow_behavior,  \* manage_budget argument: dict of flags
    output,             \* BudgetManagerOutput of the first call
    output2,            \* BudgetManagerOutput of manage_budget on output.selected_items
    bpc                 \* position of the allocator run: "input", "allocated", "reallocated"

\* context-loader.py, one run of main().
VARIABLES
    pc,                       \* the stage main() is about to execute, or its end
    exit_code,                \* main()'s return value; -1 while running, 1 for an uncaught exception
    stdout,                   \* the hook outputs printed so far
    config_file,              \* history: .red64/config.yaml as line 404 found it
    config,                   \* line 404
    task_type,                \* lines 422, 424
    file_types,               \* lines 428, 430
    standards_result,         \* lines 432, 438
    standards_context_items,  \* lines 433, 439; context_items of line 445
    budget_result,            \* lines 448, 450
    standards_context,        \* line 453
    product_context,          \* line 455; "" stands for None
    trace,                    \* history: the stages entered, in order
    failed                    \* history: the stages whose sub-script failed

\* task-detector.py and file-detector.py, each run on one prompt.
VARIABLES
    prompt,             \* the "prompt" of the input object
    file_types2,        \* what a second run of file-detector.py on the prompt prints
    cpc                 \* position: "idle", "input", "task", "files", "files again"

\* standards-loader.py and what main() does with its result, lines 432-467.
VARIABLES
    plugins,            \* the directory <cwd>/plugins: its plugin directories by name
    enabled_standards,  \* the enabled_standards argument of find_matching_standards
    via,                \* history: "loader" for the script, "matcher" for lines 206-235
    spc                 \* position: "idle", "input", "matched", "allocated", "rendered"

\* roadmap-parser.py, one run of main().
VARIABLES
    roadmap_file,       \* <cwd>/.red64/product/roadmap.md as the run finds it
    roadmap_output,     \* the ScriptOutput the run prints
    rpc                 \* position: "idle", "input", "parsed"

\* hooks/standards-validator.py, the calls of validate_tool_use in one process.
VARIABLES
    project,            \* the documents under <cwd>: the enabled list and the plugins
    hook_input,         \* the ValidatorInput of the latest call
    skills_cache,       \* _skills_cache (line 43)
    hook_output,        \* the ValidatorOutput of the latest call
    calls,              \* the number of calls so far; -1 when the hook is not run
    cache_hits          \* history: how often the latest call found its patterns cached

rvars == <<roadmap_file, roadmap_output, rpc>>

hvars == <<project, hook_input, skills_cache, hook_output, calls, cache_hits>>

bvars == <<context_items, max_tokens, overflow_behavior, output, output2, bpc>>

pvars == <<pc, exit_code, stdout, config_file, config, task_type, file_types, standards_result,
           standards_context_items, budget_result, standards_context,
           product_context, trace, failed>>

vars == <<context_items, max_tokens, overflow_behavior, output, output2, bpc,
          pc, exit_code, stdout, config_file, config, task_type, file_types, standards_result,
          standards_context_items, budget_result, standards_context,
          product_context, trace, failed,
          prompt, file_types2, cpc,
          plugins, enabled_standards, via, spc,
          roadmap_file, roadmap_output, rpc,
          project, hook_input, skills_cache, hook_output, calls, cache_hits>>

cvars == <<prompt, file_types2, cpc>>

svars == <<plugins, enabled_standards, via, spc>>

(***************************************************************************)
(* Text helpers.                                                           *)
(***************************************************************************)
Min(a, b) == IF a <= b THEN a ELSE b
Max(a, b) == IF a >= b THEN a ELSE b

RECURSIVE Doubled(_, _)
Doubled(s, n) == IF Len(s) >= n THEN s ELSE Doubled(s \o s, n)

\* A text of n characters that repeats the pattern.
TextOf(pattern, n) == SubSeq(Doubled(pattern, n), 1, n)

\* A text of n characters, "abcabc...".
Text(n) == TextOf("abc", n)

\* Variant: content[:k - 3], leaving room for the marker.
Slice_RoomForMarker(content, k) ==
    SubSeq(content, 1, Max(Min(k - 3, Len(content)), 0))

\* Python's content[:k].
Slice(content, k) ==
    IF k >= 0
    THEN SubSeq(content, 1, Min(k, Len(content)))
    ELSE SubSeq(content, 1, Max(Len(content) + k, 0))

\* Python's "piece in text".
Contains(text, piece) ==
    \E i \in 1..(Len(text) - Len(piece) + 1) :
        SubSeq(text, i, i + Len(piece) - 1) = piece

RECURSIVE SumSeq(_)
SumSeq(s) == IF s = <<>> THEN 0 ELSE Head(s) + SumSeq(Tail(s))

\* sep.join(parts) for a list of texts.
RECURSIVE Join(_, _)
Join(parts, sep) ==
    IF parts = <<>> THEN ""
    ELSE IF Len(parts) = 1 THEN parts[1]
    ELSE parts[1] \o sep \o Join(Tail(parts), sep)

(***************************************************************************)
(* budget-manager.py                                                       *)
(***************************************************************************)
estimate_tokens(content) == Len(content) \div CHARS_PER_TOKEN

\* key=lambda x: x.get("priority", 999)
PriorityKey(item) == IF "priority" \in DOMAIN item THEN item.priority ELSE 999

\* Variant: the item goes in front of the items of equal key (an unstable sort).
RECURSIVE InsertByPriority_TiesFirst(_, _)
InsertByPriority_TiesFirst(sorted, item) ==
    IF sorted = <<>> THEN <<item>>
    ELSE IF PriorityKey(Head(sorted)) < PriorityKey(item)
         THEN <<Head(sorted)>> \o InsertByPriority_TiesFirst(Tail(sorted), item)
         ELSE <<item>> \o sorted

\* Insertion of one item behind every item whose key is <= its own: the
\* stable order of Python's sorted().
RECURSIVE InsertByPriority(_, _)
InsertByPriority(sorted, item) ==
    IF sorted = <<>> THEN <<item>>
    ELSE IF PriorityKey(Head(sorted)) <= PriorityKey(item)
         THEN <<Head(sorted)>> \o InsertByPriority(Tail(sorted), item)
         ELSE <<item>> \o sorted

\* Variant: one item per priority (a sort through a dict keyed by priority).
RECURSIVE sort_by_priority_OnePerKey(_)
sort_by_priority_OnePerKey(items) ==
    IF items = <<>> THEN <<>>
    ELSE LET front == SubSeq(items, 1, Len(items) - 1)
             last == items[Len(items)]
             rest == SelectSeq(front, LAMBDA x : PriorityKey(x) # PriorityKey(last))
         IN  InsertByPriority(sort_by_priority_OnePerKey(rest), last)

RECURSIVE sort_by_priority(_)
sort_by_priority(items) ==
    IF items = <<>> THEN <<>>
    ELSE InsertByPriority(sort_by_priority(SubSeq(items, 1, Len(items) - 1)),
                          items[Len(items)])

\* Variant: a five-character marker.
truncate_content_LongMarker(content, maxTokens) ==
    LET max_chars == maxTokens * CHARS_PER_TOKEN
    IN  IF Len(content) <= max_chars
        THEN content
        ELSE Slice(content, max_chars) \o "[...]"

truncate_content(content, maxTokens) ==
    LET max_chars == maxTokens * CHARS_PER_TOKEN
    IN  IF Len(content) <= max_chars
        THEN content
        ELSE Slice(content, max_chars) \o "..."

calculate_total_tokens(items) ==
    SumSeq([i \in 1..Len(items) |-> estimate_tokens(items[i].content)])

\* overflow_behavior.get(flag, True)
Flag(behavior, flag) == IF flag \in DOMAIN behavior THEN behavior[flag] ELSE TRUE

\* Lines 148-149: the item fits whole.
IncludeWhole(acc, item, item_tokens) ==
    [acc EXCEPT !.selected_items = Append(@, item),
                !.used_tokens = @ + item_tokens]

\* Variant: the truncated item's tokens are not charged to the budget.
IncludeTruncated_NotCharged(acc, item, truncated_content) ==
    [acc EXCEPT !.selected_items = Append(@, [item EXCEPT !.content = truncated_content])]

\* Lines 158-161: the item is included with its content truncated.
IncludeTruncated(acc, item, truncated_content) ==
    [acc EXCEPT !.selected_items = Append(@, [item EXCEPT !.content = truncated_content]),
                !.used_tokens = @ + estimate_tokens(truncated_content)]

\* Variant: the excluded item's name is not recorded.
Exclude_Unrecorded(acc, item) == acc

\* Line 165: the item is excluded and its name recorded.
Exclude(acc, item) ==
    [acc EXCEPT !.excluded_items = Append(@, item.name)]

\* Variant: the forced truncation keeps the floor of ten tokens.
ForceTruncate_WithFloor(acc, item, remaining_budget) ==
    IF remaining_budget > 10
    THEN [acc EXCEPT
            !.selected_items =
                Append(@, [item EXCEPT
                             !.content = truncate_content(item.content, remaining_budget)]),
            !.used_tokens =
                @ + estimate_tokens(truncate_content(item.content, remaining_budget))]
    ELSE acc

\* Lines 167-172: exclusion disabled; truncate to what is left, if anything.
ForceTruncate(acc, item, remaining_budget) ==
    IF remaining_budget > 0
    THEN [acc EXCEPT
            !.selected_items =
                Append(@, [item EXCEPT
                             !.content = truncate_content(item.content, remaining_budget)]),
            !.used_tokens =
                @ + estimate_tokens(truncate_content(item.content, remaining_budget))]
    ELSE acc

\* Variant: a truncated content of ten tokens is accepted.
WalkStep_FloorInclusive(acc, item, maxTokens, can_truncate, can_exclude) ==
    LET item_tokens == estimate_tokens(item.content)
        remaining_budget == maxTokens - acc.used_tokens
        truncated_content == truncate_content(item.content, remaining_budget)
        truncated_tokens == estimate_tokens(truncated_content)
    IN  IF acc.used_tokens + item_tokens <= maxTokens
        THEN IncludeWhole(acc, item, item_tokens)
        ELSE IF can_truncate /\ remaining_budget > 0 /\ truncated_tokens >= 10
        THEN IncludeTruncated(acc, item, truncated_content)
        ELSE IF can_exclude
        THEN Exclude(acc, item)
        ELSE ForceTruncate(acc, item, remaining_budget)

\* Variant: the floor is tested on the item's tokens, not the truncated ones.
WalkStep_FloorOnItem(acc, item, maxTokens, can_truncate, can_exclude) ==
    LET item_tokens == estimate_tokens(item.content)
        remaining_budget == maxTokens - acc.used_tokens
        truncated_content == truncate_content(item.content, remaining_budget)
    IN  IF acc.used_tokens + item_tokens <= maxTokens
        THEN IncludeWhole(acc, item, item_tokens)
        ELSE IF can_truncate /\ remaining_budget > 0 /\ item_tokens > 10
        THEN IncludeTruncated(acc, item, truncated_content)
        ELSE IF can_exclude
        THEN Exclude(acc, item)
        ELSE ForceTruncate(acc, item, remaining_budget)

\* One iteration of the loop "for item in sorted_items" (lines 144-172).
\* acc = [selected_items, excluded_items, used_tokens]
WalkStep(acc, item, maxTokens, can_truncate, can_exclude) ==
    LET item_tokens == estimate_tokens(item.content)
        remaining_budget == maxTokens - acc.used_tokens
        truncated_content == truncate_content(item.content, remaining_budget)
        truncated_tokens == estimate_tokens(truncated_content)
    IN  IF acc.used_tokens + item_tokens <= maxTokens
        THEN IncludeWhole(acc, item, item_tokens)
        ELSE IF can_truncate /\ remaining_budget > 0 /\ truncated_tokens > 10
        THEN IncludeTruncated(acc, item, truncated_content)
        ELSE IF can_exclude
        THEN Exclude(acc, item)
        ELSE ForceTruncate(acc, item, remaining_budget)

RECURSIVE Walk(_, _, _, _, _)
Walk(acc, items, maxTokens, can_truncate, can_exclude) ==
    IF items = <<>> THEN acc
    ELSE Walk(WalkStep(acc, Head(items), maxTokens, can_truncate, can_exclude),
              Tail(items), maxTokens, can_truncate, can_exclude)

\* f"Excluded {len(excluded_items)} item(s) due to budget: {', '.join(excluded_items)}"
ExclusionSentence(excluded_items) ==
    "Excluded " \o ToString(Len(excluded_items)) \o " item(s) due to budget: "
        \o Join(excluded_items, ", ")

\* Variant: the summary flag is not consulted.
BuildOutput_IgnoresFlag(selected_items, excluded_items, show_summary) ==
    IF excluded_items # <<>>
    THEN [selected_items |-> selected_items,
          exclusion_summary |-> ExclusionSentence(excluded_items)]
    ELSE [selected_items |-> selected_items]

\* Lines 174-182: the output dict, with the summary key only when there is one.
BuildOutput(selected_items, excluded_items, show_summary) ==
    IF excluded_items # <<>> /\ show_summary
    THEN [selected_items |-> selected_items,
          exclusion_summary |-> ExclusionSentence(excluded_items)]
    ELSE [selected_items |-> selected_items]

manage_budget(items, maxTokens, behavior) ==
    IF items = <<>> THEN [selected_items |-> <<>>]
    ELSE
    LET sorted_items == sort_by_priority(items)
        total_tokens == calculate_total_tokens(sorted_items)
    IN  IF total_tokens <= maxTokens
        THEN [selected_items |-> sorted_items]
        ELSE
        LET can_truncate == Flag(behavior, "truncate")
            can_exclude == Flag(behavior, "exclude")
            show_summary == Flag(behavior, "summary")
            walked == Walk([selected_items |-> <<>>, excluded_items |-> <<>>,
                            used_tokens |-> 0],
                           sorted_items, maxTokens, can_truncate, can_exclude)
        IN  BuildOutput(walked.selected_items, walked.excluded_items, show_summary)

(***************************************************************************)
(* config_utils.py, as far as the pipeline reads the configuration.        *)
(***************************************************************************)
\* dict.get(key, default)
Get(dict, key, default) == IF key \in DOMAIN dict THEN dict[key] ELSE default

EmptyDict == <<>>

get_token_budget(cfg) ==
    Get(Get(cfg, "token_budget", EmptyDict), "max_tokens", DEFAULT_MAX_TOKENS)

get_overflow_behavior(cfg) ==
    Get(Get(cfg, "token_budget", EmptyDict), "overflow_behavior",
        [truncate |-> TRUE, exclude |-> TRUE, summary |-> TRUE])

\* What yaml.safe_load makes of the text of .red64/config.yaml: a YAMLError,
\* None (an empty file), a value that is no mapping (a list, a scalar), or a
\* mapping. The sections of a mapping are such values again; the entries of
\* a section are plain values.
YamlError == [yaml |-> "error"]
YamlNull == [yaml |-> "null"]
YamlSequence == [yaml |-> "sequence"]
YamlMapping(entries) == [yaml |-> "mapping", value |-> entries]

\* isinstance(value, dict); a value of another type has no .get.
IsMapping(node) == node.yaml = "mapping"

\* The file system at the path find_config_path looks for.
NoConfigFile == [exists |-> FALSE]
ConfigFile(document) == [exists |-> TRUE, document |-> document]

\* What a function leaves with: an exception, or a returned value.
Raised(exception) == [raised |-> exception]
Returned(value) == [raised |-> "", returned |-> value]

\* config_schema.py:60-93.
get_default_config ==
    [version |-> "1.0",
     token_budget |->
         [max_tokens |-> 3000,
          overflow_behavior |-> [truncate |-> TRUE, exclude |-> TRUE, summary |-> TRUE]],
     context_loader |->
         [enabled |-> TRUE, task_detection |-> TRUE, file_type_detection |-> TRUE],
     priorities |->
         [product_mission |-> 1, current_spec |-> 2, relevant_standards |-> 3,
          tech_stack |-> 4, roadmap |-> 5],
     features |->
         [standards_injection |-> FALSE, multi_agent |-> FALSE, metrics |-> FALSE]]

\* Lines 118-140: the token_budget section. token_budget.get and
\* token_budget.get("overflow_behavior", {}).get need mappings.
MergeTokenBudget(config_data) ==
    LET defaults == get_default_config.token_budget
    IN  IF "token_budget" \notin DOMAIN config_data THEN Returned(defaults)
        ELSE IF ~IsMapping(config_data.token_budget) THEN Raised("AttributeError")
        ELSE LET token_budget == config_data.token_budget.value
                 overflow == Get(token_budget, "overflow_behavior", YamlMapping(EmptyDict))
             IN  IF ~IsMapping(overflow) THEN Raised("AttributeError")
                 ELSE Returned(
                        [max_tokens |-> Get(token_budget, "max_tokens", defaults.max_tokens),
                         overflow_behavior |->
                             [f \in {"truncate", "exclude", "summary"} |->
                                 Get(overflow.value, f, defaults.overflow_behavior[f])]])

\* Lines 142-191: the context_loader, priorities and features sections, each
\* merged entry by entry with its defaults.
MergeSection(config_data, section) ==
    LET defaults == get_default_config[section]
    IN  IF section \notin DOMAIN config_data THEN Returned(defaults)
        ELSE IF ~IsMapping(config_data[section]) THEN Raised("AttributeError")
        ELSE Returned([k \in DOMAIN defaults |->
                          Get(config_data[section].value, k, defaults[k])])

\* config_data is the mapping's entries. The keys of the result are those
\* the function assigns: version, token_budget, context_loader, priorities,
\* features.
merge_with_defaults(config_data) ==
    LET token_budget == MergeTokenBudget(config_data)
        context_loader == MergeSection(config_data, "context_loader")
        priorities == MergeSection(config_data, "priorities")
        features == MergeSection(config_data, "features")
    IN  IF \E part \in {token_budget, context_loader, priorities, features} :
              part.raised # ""
        THEN Raised("AttributeError")
        ELSE Returned(
               [version |-> Get(config_data, "version", get_default_config.version),
                token_budget |-> token_budget.returned,
                context_loader |-> context_loader.returned,
                priorities |-> priorities.returned,
                features |-> features.returned])

\* raise ConfigMalformedError(message)
Malformed(message) == [raised |-> "ConfigMalformedError", message |-> message]

\* str() of the YAMLError of a text that is no YAML, for example.
YamlErrorText == "mapping values are not allowed here"

\* find_config_path (lines 30-65) followed by load_config (lines 68-100).
load_config(file) ==
    IF ~file.exists THEN Raised("ConfigNotFoundError")
    ELSE IF file.document.yaml = "error"
    THEN Malformed("Invalid YAML in config file: " \o YamlErrorText)
    ELSE IF file.document.yaml = "null" THEN Malformed("Config file is empty.")
    ELSE IF ~IsMapping(file.document)
    THEN Malformed("Config file must contain a YAML mapping.")
    ELSE merge_with_defaults(file.document.value)

(***************************************************************************)
(* Characters of a text.                                                   *)
(***************************************************************************)
Chars(text) == {SubSeq(text, i, i) : i \in 1..Len(text)}

UpperCase == "ABCDEFGHIJKLMNOPQRSTUVWXYZ"
LowerCase == "abcdefghijklmnopqrstuvwxyz"
Letters == Chars(UpperCase) \cup Chars(LowerCase)
Digits == Chars("0123456789")

\* The character at position i, "" outside the text.
At(text, i) == IF i >= 1 /\ i <= Len(text) THEN SubSeq(text, i, i) ELSE ""

\* The lower-case letter of each upper-case letter.
ToLower ==
    [c \in Chars(UpperCase) |->
        LET i == CHOOSE k \in 1..Len(UpperCase) : SubSeq(UpperCase, k, k) = c
        IN  SubSeq(LowerCase, i, i)]

LowerChar(c) == IF c \in DOMAIN ToLower THEN ToLower[c] ELSE c

\* Python's str.lower().
RECURSIVE Lower(_)
Lower(text) ==
    IF text = "" THEN "" ELSE LowerChar(Head(text)) \o Lower(Tail(text))

(***************************************************************************)
(* task-detector.py                                                        *)
(***************************************************************************)
TASK_PATTERNS ==
    [shape |-> <<"requirements", "scope", "define", "plan", "outline", "architect", "design">>,
     write_spec |-> <<"spec", "specification", "document", "write spec", "write-spec",
                      "writespec", "prd">>,
     implement |-> <<"implement", "build", "create", "code", "develop", "make", "add", "write">>,
     review |-> <<"review", "check", "audit", "inspect", "examine", "analyze", "look at">>,
     test |-> <<"test", "verify", "validate", "assert", "unit test", "integration test">>,
     debug |-> <<"debug", "fix", "error", "bug", "issue", "problem", "broken", "failing">>,
     refactor |-> <<"refactor", "restructure", "reorganize", "clean up", "cleanup", "improve",
                    "optimize">>]

TASK_PRIORITY ==
    <<"debug", "test", "review", "shape", "write-spec", "refactor", "implement">>

\* TASK_PATTERNS[category]; a record field cannot be named write-spec.
KeywordsOf(category) ==
    IF category = "write-spec" THEN TASK_PATTERNS.write_spec ELSE TASK_PATTERNS[category]

\* Lines 118-121: "for keyword in keywords: if keyword in prompt_lower".
AnyKeywordIn(keywords, text) ==
    \E k \in 1..Len(keywords) : Contains(text, keywords[k])

\* Lines 116-123 from the idx-th task type on.
RECURSIVE ScanTaskTypes(_, _)
ScanTaskTypes(prompt_lower, idx) ==
    IF idx > Len(TASK_PRIORITY) THEN "unknown"
    ELSE IF AnyKeywordIn(KeywordsOf(TASK_PRIORITY[idx]), prompt_lower)
         THEN TASK_PRIORITY[idx]
         ELSE ScanTaskTypes(prompt_lower, idx + 1)

\* Variant: the prompt is searched as it is written.
detect_task_type_CaseSensitive(text) == ScanTaskTypes(text, 1)

detect_task_type(text) == ScanTaskTypes(Lower(text), 1)

(***************************************************************************)
(* file-detector.py                                                        *)
(***************************************************************************)
\* In the order of the dict's items.
EXTENSION_KEYWORDS ==
    <<[extension |-> ".py", keywords |-> <<"python", "py", ".py">>],
      [extension |-> ".ts", keywords |-> <<"typescript", "ts", ".ts">>],
      [extension |-> ".js", keywords |-> <<"javascript", "js", ".js">>],
      [extension |-> ".md", keywords |-> <<"markdown", "md", ".md">>],
      [extension |-> ".yaml", keywords |-> <<"yaml", ".yaml", ".yml">>],
      [extension |-> ".json", keywords |-> <<"json", ".json">>],
      [extension |-> ".html", keywords |-> <<"html", ".html">>],
      [extension |-> ".css", keywords |-> <<"css", ".css">>]>>

\* The regular expressions' character classes: \w, [a-zA-Z0-9_-] and
\* [a-zA-Z0-9_.-].
WordChars == Letters \cup Digits \cup {"_"}
NameChars == WordChars \cup {"-"}
SegmentChars == NameChars \cup {"."}

\* \b in front of position i: exactly one of the characters at i - 1 and i
\* is a word character.
Boundary(text, i) == (At(text, i - 1) \in WordChars) # (At(text, i) \in WordChars)

\* The position behind the longest run of characters of the class from i on.
RECURSIVE RunEnd(_, _, _)
RunEnd(text, i, class) ==
    IF At(text, i) \in class THEN RunEnd(text, i + 1, class) ELSE i

\* The alternatives of FILENAME_PATTERN's group, in the order they are tried.
FilenameExtensions == <<"py", "ts", "js", "md", "yaml", "yml", "json", "html", "css">>

\* FILENAME_PATTERN matched at position i: the position behind the match, 0
\* when there is none. The run of name characters is followed by a dot, which
\* is no name character, so only the longest run can match.
MatchFilenameAt(text, i) ==
    LET dot == RunEnd(text, i, NameChars)
        Behind(k) == dot + 1 + Len(FilenameExtensions[k])
        Matches(k) ==
            /\ Behind(k) - 1 <= Len(text)
            /\ SubSeq(text, dot + 1, Behind(k) - 1) = FilenameExtensions[k]
            /\ Boundary(text, Behind(k))
        tried == {k \in 1..Len(FilenameExtensions) : Matches(k)}
    IN  IF ~Boundary(text, i) \/ dot = i \/ At(text, dot) # "." \/ tried = {} THEN 0
        ELSE Behind(CHOOSE k \in tried : \A j \in tried : k <= j)

\* FILENAME_PATTERN.findall(prompt) from position i on: the matches from left
\* to right, none overlapping another.
RECURSIVE FilenameMatches(_, _)
FilenameMatches(text, i) ==
    IF i > Len(text) THEN <<>>
    ELSE LET behind == MatchFilenameAt(text, i)
         IN  IF behind = 0 THEN FilenameMatches(text, i + 1)
             ELSE <<SubSeq(text, i, behind - 1)>> \o FilenameMatches(text, behind)

\* The largest position in from..to in front of which there is a \b, 0 when
\* there is none.
LastBoundary(text, from, to) ==
    LET at == {e \in from..to : Boundary(text, e)}
    IN  IF at = {} THEN 0 ELSE CHOOSE e \in at : \A f \in at : f <= e

\* The rest of PATH_PATTERN behind the first segment, from position pos on
\* with n groups "/segment" matched: the position behind the match that the
\* backtracking search finds first, 0 when it finds none. It tries another
\* group with the longest segment, then with shorter ones (behind which only
\* the \b can follow), and, with one group at least, the optional "/" and
\* the \b.
RECURSIVE MatchPathGroups(_, _, _)
MatchPathGroups(text, pos, n) ==
    LET run == RunEnd(text, pos + 1, SegmentChars)
        longest == IF At(text, pos) = "/" /\ run > pos + 1
                   THEN MatchPathGroups(text, run, n + 1)
                   ELSE 0
        shorter == IF At(text, pos) = "/" /\ run > pos + 2
                   THEN LastBoundary(text, pos + 2, run - 1)
                   ELSE 0
    IN  IF longest # 0 THEN longest
        ELSE IF shorter # 0 THEN shorter
        ELSE IF n = 0 THEN 0
        ELSE IF At(text, pos) = "/" /\ Boundary(text, pos + 1) THEN pos + 1
        ELSE IF Boundary(text, pos) THEN pos
        ELSE 0

\* PATH_PATTERN matched at position i. The first segment is followed by "/",
\* which is no segment character, so only the longest run can match.
MatchPathAt(text, i) ==
    LET first == RunEnd(text, i, SegmentChars)
    IN  IF ~Boundary(text, i) \/ first = i THEN 0
        ELSE MatchPathGroups(text, first, 0)

\* PATH_PATTERN.findall(prompt) from position i on.
RECURSIVE PathMatches(_, _)
PathMatches(text, i) ==
    IF i > Len(text) THEN <<>>
    ELSE LET behind == MatchPathAt(text, i)
         IN  IF behind = 0 THEN PathMatches(text, i + 1)
             ELSE <<SubSeq(text, i, behind - 1)>> \o PathMatches(text, behind)

\* Variant of list(set(matches)): the matches as found, duplicates kept.
Orderings_AllMatches(matches) == {matches}

\* list(set(matches)): the distinct matches in the order in which the set
\* iterates. That order follows the strings' hashes, which each interpreter
\* process salts with its own random seed: every order is possible.
Orderings(matches) ==
    LET distinct == {matches[k] : k \in 1..Len(matches)}
        n == Cardinality(distinct)
    IN  {order \in [1..n -> distinct] :
            \A a, b \in 1..n : a # b => order[a] # order[b]}

\* Lines 55-65.
RECURSIVE ExtensionsFrom(_, _)
ExtensionsFrom(prompt_lower, idx) ==
    IF idx > Len(EXTENSION_KEYWORDS) THEN <<>>
    ELSE (IF AnyKeywordIn(EXTENSION_KEYWORDS[idx].keywords, prompt_lower)
          THEN <<EXTENSION_KEYWORDS[idx].extension>>
          ELSE <<>>)
         \o ExtensionsFrom(prompt_lower, idx + 1)

detect_extensions_from_keywords(text) == ExtensionsFrom(Lower(text), 1)

\* The lists the function can return.
detect_explicit_filenames(text) == Orderings(FilenameMatches(text, 1))

\* match.split("/")[0]
FirstSegment(match) == SubSeq(match, 1, RunEnd(match, 1, SegmentChars) - 1)

\* Lines 93-97 for one match: the path with its "/" when the first segment
\* has a letter.
PathOf(match) ==
    LET path == IF At(match, Len(match)) = "/" THEN match ELSE match \o "/"
    IN  IF Chars(FirstSegment(match)) \cap Letters # {} THEN <<path>> ELSE <<>>

RECURSIVE PathsOf(_)
PathsOf(matches) ==
    IF matches = <<>> THEN <<>> ELSE PathOf(Head(matches)) \o PathsOf(Tail(matches))

\* The lists the function can return.
detect_path_references(text) == Orderings(PathsOf(PathMatches(text, 1)))

\* The lists the function can return: the three passes' results in a row.
detect_file_types(text) ==
    {detect_extensions_from_keywords(text) \o filenames \o paths :
        filenames \in detect_explicit_filenames(text),
        paths \in detect_path_references(text)}

(***************************************************************************)
(* standards-loader.py                                                     *)
(***************************************************************************)
\* A plugin directory <cwd>/plugins/<name>: absent, or there with what
\* standards.json parses to ({} when the file is missing or no JSON, lines
\* 77-83) and its skills directory.
NoPlugin == [exists |-> FALSE]
PluginDir(standards_json, skills_dir) ==
    [exists |-> TRUE, standards_json |-> standards_json, skills_dir |-> skills_dir]

\* The directory skills: absent, or there with its *.md files in the order
\* of sorted(skills_dir.glob("*.md")).
NoSkillsDir == [exists |-> FALSE]
SkillsDir(files) == [exists |-> TRUE, files |-> files]

\* A file <stem>.md whose read_text() returns the content, or raises IOError.
SkillFile(stem, content) == [stem |-> stem, readable |-> TRUE, content |-> content]
UnreadableFile(stem) == [stem |-> stem, readable |-> FALSE]

\* plugins_dir / standard_name
PluginPath(plugins_dir, standard_name) ==
    IF standard_name \in DOMAIN plugins_dir THEN plugins_dir[standard_name] ELSE NoPlugin

load_standards_json(plugin_path) == plugin_path.standards_json

get_file_patterns(standards_json) == Get(standards_json, "file_patterns", <<>>)

\* fnmatch.fnmatch for patterns of literal characters, "*" and "?".
RECURSIVE fnmatch(_, _)
fnmatch(name, pattern) ==
    IF pattern = "" THEN name = ""
    ELSE IF Head(pattern) = "*"
    THEN fnmatch(name, Tail(pattern)) \/ (name # "" /\ fnmatch(Tail(name), pattern))
    ELSE /\ name # ""
         /\ Head(pattern) = "?" \/ Head(pattern) = Head(name)
         /\ fnmatch(Tail(name), Tail(pattern))

\* The text without the "/" it ends with.
RECURSIVE WithoutTrailingSlashes(_)
WithoutTrailingSlashes(path) ==
    IF path # "" /\ At(path, Len(path)) = "/"
    THEN WithoutTrailingSlashes(SubSeq(path, 1, Len(path) - 1))
    ELSE path

\* Path(file_type).name: the last component of the path.
PathName(path) ==
    LET stripped == WithoutTrailingSlashes(path)
        slashes == {i \in 1..Len(stripped) : At(stripped, i) = "/"}
        last == IF slashes = {} THEN 0 ELSE CHOOSE i \in slashes : \A j \in slashes : j <= i
    IN  SubSeq(stripped, last + 1, Len(stripped))

file_type_matches_patterns(file_type, patterns) ==
    \E k \in 1..Len(patterns) :
        IF At(file_type, 1) = "."
        THEN fnmatch("test" \o file_type, patterns[k])
        ELSE \/ fnmatch(file_type, patterns[k])
             \/ fnmatch(PathName(file_type), patterns[k])

\* Lines 136-145: the files that can be read, in order.
RECURSIVE SkillsOf(_)
SkillsOf(files) ==
    IF files = <<>> THEN <<>>
    ELSE (IF Head(files).readable
          THEN <<[name |-> Head(files).stem, content |-> Head(files).content]>>
          ELSE <<>>)
         \o SkillsOf(Tail(files))

load_skills_from_plugin(plugin_path) ==
    IF ~plugin_path.skills_dir.exists THEN <<>>
    ELSE SkillsOf(plugin_path.skills_dir.files)

\* Lines 167-178 from priority_index on.
RECURSIVE MatchingFrom(_, _, _, _)
MatchingFrom(fileTypes, enabled, plugins_dir, priority_index) ==
    IF priority_index >= Len(enabled) THEN <<>>
    ELSE LET standard_name == enabled[priority_index + 1]
             plugin_path == PluginPath(plugins_dir, standard_name)
             rest == MatchingFrom(fileTypes, enabled, plugins_dir, priority_index + 1)
         IN  IF ~plugin_path.exists THEN rest
             ELSE IF \E k \in 1..Len(fileTypes) :
                        file_type_matches_patterns(
                            fileTypes[k],
                            get_file_patterns(load_standards_json(plugin_path)))
             THEN <<[plugin_name |-> standard_name, plugin_path |-> plugin_path,
                     priority_index |-> priority_index]>> \o rest
             ELSE rest

find_matching_standards(fileTypes, enabled, plugins_dir) ==
    MatchingFrom(fileTypes, enabled, plugins_dir, 0)

\* Variant of lines 218-225 without "if skills": every match is kept.
RECURSIVE StandardsOf_KeepsEmpty(_)
StandardsOf_KeepsEmpty(matching_standards) ==
    IF matching_standards = <<>> THEN <<>>
    ELSE <<[plugin_name |-> Head(matching_standards).plugin_name,
            skills |-> load_skills_from_plugin(Head(matching_standards).plugin_path),
            priority |-> Head(matching_standards).priority_index]>>
         \o StandardsOf_KeepsEmpty(Tail(matching_standards))

\* Lines 218-225.
RECURSIVE StandardsOf(_)
StandardsOf(matching_standards) ==
    IF matching_standards = <<>> THEN <<>>
    ELSE LET skills == load_skills_from_plugin(Head(matching_standards).plugin_path)
         IN  (IF Len(skills) > 0
              THEN <<[plugin_name |-> Head(matching_standards).plugin_name,
                      skills |-> skills,
                      priority |-> Head(matching_standards).priority_index]>>
              ELSE <<>>)
             \o StandardsOf(Tail(matching_standards))

\* Variant of lines 229-233: the note names the last standard.
PrecedenceNote_NamesLast(standards) ==
    "Multiple standards apply. " \o standards[Len(standards)].plugin_name
        \o " takes precedence."

\* Lines 230-233.
PrecedenceNote(standards) ==
    "Multiple standards apply. " \o standards[1].plugin_name \o " takes precedence."

\* Lines 206-235: load_standards_for_file_types from the enabled list on.
MatchEnabled(fileTypes, enabled, plugins_dir) ==
    LET matching_standards == find_matching_standards(fileTypes, enabled, plugins_dir)
        standards == StandardsOf(matching_standards)
    IN  IF Len(enabled) = 0 \/ Len(matching_standards) = 0 THEN [standards |-> <<>>]
        ELSE IF Len(standards) > 1
        THEN [standards |-> standards, precedence_note |-> PrecedenceNote(standards)]
        ELSE [standards |-> standards]

\* The function's outcome for the configuration file in <cwd>/.red64.
load_standards_for_file_types(fileTypes, file, plugins_dir) ==
    LET loaded == load_config(file)
    IN  IF Len(fileTypes) = 0 THEN Returned([standards |-> <<>>])
        ELSE IF loaded.raised \in {"ConfigNotFoundError", "ConfigMalformedError"}
        THEN Returned([standards |-> <<>>])
        ELSE IF loaded.raised # "" THEN Raised(loaded.raised)
        ELSE Returned(MatchEnabled(
                 fileTypes,
                 Get(Get(loaded.returned, "standards", EmptyDict), "enabled", <<>>),
                 plugins_dir))

(***************************************************************************)
(* context-loader.py                                                       *)
(***************************************************************************)
\* What subprocess.run (lines 108-113) can come back with: the interpreter
\* could not be started (OSError), or the script ran and left a return code
\* and a stdout that is a JSON object, another JSON value, or no JSON.
SpawnFailure == [spawned |-> FALSE]
Proc(returncode, out) == [spawned |-> TRUE, returncode |-> returncode, stdout |-> out]
JsonObject(obj) == [json |-> TRUE, is_object |-> TRUE, value |-> obj]
JsonArray == [json |-> TRUE, is_object |-> FALSE]
NotJson == [json |-> FALSE]

\* The exception run_sub_script leaves with, or the parsed stdout it returns.
run_sub_script(proc) ==
    IF ~proc.spawned THEN [raised |-> "OSError"]
    ELSE IF proc.returncode # 0 /\ proc.returncode # 2 THEN [raised |-> "RuntimeError"]
    ELSE IF ~proc.stdout.json THEN [raised |-> "RuntimeError"]
    ELSE [raised |-> "", returned |-> proc.stdout]

\* What a call site "try: r = run_sub_script(..); r.get(..) except RuntimeError"
\* makes of a run: the parsed object, the except branch, or an exception that
\* the except clause does not name (OSError; AttributeError of .get on a value
\* that is no dict).
CallSite(proc) ==
    LET r == run_sub_script(proc)
    IN  IF r.raised = "RuntimeError" THEN [kind |-> "except"]
        ELSE IF r.raised # "" THEN [kind |-> "uncaught", exception |-> r.raised]
        ELSE IF ~r.returned.is_object THEN [kind |-> "uncaught", exception |-> "AttributeError"]
        ELSE [kind |-> "value", value |-> r.returned.value]

\* Lines 198-205.
get_product_context(call) ==
    IF call.kind = "except" THEN ""
    ELSE LET text == Get(call.value, "product_context", "")
         IN  IF text # "" /\ ~Contains(text, "No product context available")
             THEN text
             ELSE ""

\* Lines 208-245. The priority token_budget_priority + idx / (total_standards + 1)
\* is kept in units of 1 / (total_standards + 1): the items of one list share
\* the unit, and the allocator only compares priorities.
RECURSIVE StandardsItems(_, _, _, _)
StandardsItems(standards, idx, total_standards, token_budget_priority) ==
    IF idx >= Len(standards) THEN <<>>
    ELSE LET standard == standards[idx + 1]
             plugin_name == Get(standard, "plugin_name", "unknown")
             skills == Get(standard, "skills", <<>>)
             skill_contents == [k \in 1..Len(skills) |-> Get(skills[k], "content", "")]
             combined_content == Join(skill_contents, "\n\n")
             rest == StandardsItems(standards, idx + 1, total_standards,
                                    token_budget_priority)
         IN  IF combined_content # ""
             THEN <<[name |-> "standards:" \o plugin_name,
                     content |-> combined_content,
                     priority |-> token_budget_priority * (total_standards + 1) + idx]>>
                  \o rest
             ELSE rest

create_standards_context_items(result, token_budget_priority) ==
    LET standards == Get(result, "standards", <<>>)
    IN  StandardsItems(standards, 0, Len(standards), token_budget_priority)

\* Python's str.strip().
Whitespace == {" ", "\n", "\t", "\r"}

RECURSIVE LStrip(_)
LStrip(text) ==
    IF Len(text) > 0 /\ SubSeq(text, 1, 1) \in Whitespace
    THEN LStrip(SubSeq(text, 2, Len(text)))
    ELSE text

RECURSIVE RStrip(_)
RStrip(text) ==
    IF Len(text) > 0 /\ SubSeq(text, Len(text), Len(text)) \in Whitespace
    THEN RStrip(SubSeq(text, 1, Len(text) - 1))
    ELSE text

Strip(text) == LStrip(RStrip(text))

\* Lines 289-293.
RECURSIVE SkillLines(_)
SkillLines(skills) ==
    IF skills = <<>> THEN <<>>
    ELSE LET content == Get(Head(skills), "content", "")
         IN  (IF content # "" THEN <<content, "">> ELSE <<>>) \o SkillLines(Tail(skills))

\* Lines 275-293, one round of "for standard in standards".
StandardLines(standard, selected_names, selected_items) ==
    LET plugin_name == Get(standard, "plugin_name", "unknown")
        item_name == "standards:" \o plugin_name
        skills == Get(standard, "skills", <<>>)
    IN  IF item_name \notin selected_names /\ Len(selected_items) > 0 THEN <<>>
        ELSE IF Len(skills) = 0 THEN <<>>
        ELSE <<"## Standards: " \o plugin_name, "">> \o SkillLines(skills)

RECURSIVE AllStandardLines(_, _, _)
AllStandardLines(standards, selected_names, selected_items) ==
    IF standards = <<>> THEN <<>>
    ELSE StandardLines(Head(standards), selected_names, selected_items)
            \o AllStandardLines(Tail(standards), selected_names, selected_items)

format_standards_context(result, selected_items) ==
    LET standards == Get(result, "standards", <<>>)
        selected_names ==
            {Get(selected_items[j], "name", "") : j \in 1..Len(selected_items)}
        precedence_note == Get(result, "precedence_note", "")
        note_lines ==
            IF precedence_note # ""
            THEN <<"", "*Note: " \o precedence_note \o "*", "">>
            ELSE <<>>
    IN  IF Len(standards) = 0 THEN ""
        ELSE Strip(Join(note_lines
                          \o AllStandardLines(standards, selected_names, selected_items),
                        "\n"))

\* Variant: the product context is put in front of the standards block.
format_additional_context_ProductFirst(taskType, fileTypes, budgetResult, productContext, standardsContext) ==
    Join(<<"## Red64 Context", "", "**Detected Task Type:** " \o taskType>>
           \o (IF Len(fileTypes) > 0
               THEN <<"**Detected File Types:** " \o Join(fileTypes, ", ")>>
               ELSE <<>>)
           \o (IF Get(budgetResult, "exclusion_summary", "") # ""
               THEN <<"", "*" \o budgetResult.exclusion_summary \o "*">>
               ELSE <<>>)
           \o (IF productContext # "" THEN <<"", productContext>> ELSE <<>>)
           \o (IF standardsContext # "" THEN <<"", standardsContext>> ELSE <<>>),
         "\n")

format_additional_context(taskType, fileTypes, budgetResult, productContext, standardsContext) ==
    Join(<<"## Red64 Context", "", "**Detected Task Type:** " \o taskType>>
           \o (IF Len(fileTypes) > 0
               THEN <<"**Detected File Types:** " \o Join(fileTypes, ", ")>>
               ELSE <<>>)
           \o (IF Get(budgetResult, "exclusion_summary", "") # ""
               THEN <<"", "*" \o budgetResult.exclusion_summary \o "*">>
               ELSE <<>>)
           \o (IF standardsContext # "" THEN <<"", standardsContext>> ELSE <<>>)
           \o (IF productContext # "" THEN <<"", productContext>> ELSE <<>>),
         "\n")

create_error_output(message) ==
    [event |-> "UserPromptSubmit",
     hookSpecificOutput |-> [additionalContext |-> message]]

create_success_output(additional_context) ==
    [event |-> "UserPromptSubmit",
     hookSpecificOutput |-> [additionalContext |-> additional_context]]

\* The stages of main() in the order of its statements: stdin (391-400),
\* configuration (402-418), task (420-424), files (426-430), standards
\* (432-443), budget (445-453), product context (455), output (457-467).
StageOrder ==
    <<"START", "CONFIG_CHECK", "CLASSIFY", "FILE_DETECT", "STANDARDS_MATCH",
      "BUDGET_ALLOCATE", "PRODUCT_CONTEXT", "FORMAT", "DONE">>

StageIndex(stage) == CHOOSE k \in 1..Len(StageOrder) : StageOrder[k] = stage

\* Variant: the product context is fetched before the budget is allocated.
NextStage_ProductFirst(stage) ==
    CASE stage = "STANDARDS_MATCH" -> "PRODUCT_CONTEXT"
      [] stage = "PRODUCT_CONTEXT" -> "BUDGET_ALLOCATE"
      [] stage = "BUDGET_ALLOCATE" -> "FORMAT"
      [] OTHER -> StageOrder[StageIndex(stage) + 1]

\* The stage whose statements follow those of the given stage.
NextStage(stage) == StageOrder[StageIndex(stage) + 1]

PipelineIdle ==
    /\ pc = "START"
    /\ exit_code = -1
    /\ stdout = <<>>
    /\ config_file = NoConfigFile
    /\ config = EmptyDict
    /\ task_type = ""
    /\ file_types = <<>>
    /\ standards_result = [standards |-> <<>>]
    /\ standards_context_items = <<>>
    /\ budget_result = [selected_items |-> <<>>]
    /\ standards_context = ""
    /\ product_context = ""
    /\ trace = <<"START">>
    /\ failed = {}

\* The roadmap parser is not run.
RoadmapIdle ==
    /\ roadmap_file = [exists |-> FALSE]
    /\ roadmap_output = <<>>
    /\ rpc = "idle"

\* The validator hook is not run.
ValidatorIdle ==
    /\ project = <<>>
    /\ hook_input = <<>>
    /\ skills_cache = <<>>
    /\ hook_output = <<>>
    /\ calls = -1
    /\ cache_hits = 0

\* No detector has been run on its own.
ClassifierIdle ==
    /\ prompt = ""
    /\ file_types2 = <<>>
    /\ cpc = "idle"

\* The standards path has not been run on its own.
StandardsIdle ==
    /\ plugins = <<>>
    /\ enabled_standards = <<>>
    /\ via = ""
    /\ spc = "idle"

(***************************************************************************)
(* Inputs of the allocator.                                                *)
(***************************************************************************)
ItemName(i) == "item" \o ToString(i)

\* Content lengths in characters: 0, 5 and 15 tokens. With the budgets below
\* the walk meets a remaining budget of 0, of 1..10 (below the truncation
\* floor, 10 included) and of 11 and more.
ContentLens == {3, 20, 61}

TokenBudgets == {4, 11, 16, 30}

\* Priorities of the input items; 0 stands for an item without a "priority"
\* key, which sorts as 999.
PriorityChoices == {0, 1, 2}

MkItem(i, len, p) ==
    IF p = 0
    THEN [name |-> ItemName(i), content |-> Text(len)]
    ELSE [name |-> ItemName(i), content |-> Text(len), priority |-> p]

Behaviors == [{"truncate", "exclude", "summary"} -> BOOLEAN]

NotRun == [selected_items |-> <<>>, not_run |-> TRUE]

AllEnabled == [f \in {"truncate", "exclude", "summary"} |-> TRUE]

\* tests/test_budget_manager.py:88-118: budget 150, two 800-character items.
ScenarioTwoItems ==
    [items |-> <<[name |-> "item1", content |-> Text(800), priority |-> 1],
                 [name |-> "item2", content |-> Text(800), priority |-> 2]>>,
     max_tokens |-> 150, behavior |-> AllEnabled]

\* tests/test_budget_manager.py:120-140: default budget, one 16000-character item.
ScenarioLargeItem ==
    [items |-> <<[name |-> "large_item", content |-> Text(16000), priority |-> 1]>>,
     max_tokens |-> DEFAULT_MAX_TOKENS, behavior |-> AllEnabled]

\* tests/test_budget_manager.py:209-241: budget 50, an item of 40 tokens
\* and two of 200.
ScenarioInsufficient ==
    [items |-> <<[name |-> "must_include", content |-> TextOf("a", 160), priority |-> 1],
                 [name |-> "can_exclude", content |-> TextOf("b", 800), priority |-> 2],
                 [name |-> "also_exclude", content |-> TextOf("c", 800), priority |-> 3]>>,
     max_tokens |-> 50, behavior |-> AllEnabled]

Scenarios == {ScenarioTwoItems, ScenarioLargeItem, ScenarioInsufficient}

\* The allocator before a call, as the pipeline's part of the state sees it.
BudgetIdle ==
    /\ context_items = <<>>
    /\ max_tokens = DEFAULT_MAX_TOKENS
    /\ overflow_behavior = AllEnabled
    /\ output = NotRun
    /\ output2 = NotRun
    /\ bpc = "input"

BudgetInit ==
    /\ RoadmapIdle
    /\ ValidatorIdle
    /\ PipelineIdle
    /\ ClassifierIdle
    /\ StandardsIdle
    /\ \/ /\ \E n \in 0..MaxItems :
               \E lens \in [1..n -> ContentLens], prios \in [1..n -> PriorityChoices] :
                  context_items = [i \in 1..n |-> MkItem(i, lens[i], prios[i])]
          /\ max_tokens \in TokenBudgets
          /\ overflow_behavior \in Behaviors
       \/ \E sc \in Scenarios :
             /\ context_items = sc.items
             /\ max_tokens = sc.max_tokens
             /\ overflow_behavior = sc.behavior
    /\ output = NotRun
    /\ output2 = NotRun
    /\ bpc = "input"

Allocate ==
    /\ bpc = "input"
    /\ output' = manage_budget(context_items, max_tokens, overflow_behavior)
    /\ bpc' = "allocated"
    /\ UNCHANGED <<context_items, max_tokens, overflow_behavior, output2>>
    /\ UNCHANGED <<pvars, cvars, svars, rvars, hvars>>

Reallocate ==
    /\ bpc = "allocated"
    /\ output2' = manage_budget(output.selected_items, max_tokens, overflow_behavior)
    /\ bpc' = "reallocated"
    /\ UNCHANGED <<context_items, max_tokens, overflow_behavior, output>>
    /\ UNCHANGED <<pvars, cvars, svars, rvars, hvars>>

BudgetNext == Allocate \/ Reallocate

Spec == BudgetInit /\ [][BudgetNext]_vars

(***************************************************************************)
(* One run of context-loader.py's main(), stage by stage. What the         *)
(* environment hands to a stage (stdin, the configuration file, what a     *)
(* sub-script's process does) is chosen when the stage runs.               *)
(***************************************************************************)
\* Texts of .red64/config.yaml that parse to a mapping with well-formed
\* sections: every budget and flag combination, a file without sections, a
\* section with entries left out, and files that enable standards.
BudgetSection(m, behavior) ==
    YamlMapping([max_tokens |-> m, overflow_behavior |-> YamlMapping(behavior)])

WellFormedConfigs ==
    {[version |-> "1.0", token_budget |-> BudgetSection(m, b)] :
        m \in TokenBudgets, b \in Behaviors}
    \cup {[version |-> "1.0"]}
    \cup {[token_budget |->
              YamlMapping([overflow_behavior |-> YamlMapping([truncate |-> FALSE])])]}
    \cup {[version |-> "1.0",
           token_budget |-> BudgetSection(30, AllEnabled),
           standards |-> YamlMapping([enabled |-> e, token_budget_priority |-> 2])] :
            e \in {<<"typescript">>, <<"python", "typescript">>}}
    \cup {[standards |-> YamlMapping([enabled |-> <<"typescript">>])]}

\* Mappings with a section that is no mapping: "token_budget:" left empty,
\* "overflow_behavior:" left empty, "features" given as a list.
MalformedSections ==
    {[version |-> "1.0", token_budget |-> YamlNull],
     [token_budget |-> YamlMapping([max_tokens |-> 11, overflow_behavior |-> YamlNull])],
     [version |-> "1.0", features |-> YamlSequence]}

ConfigFiles ==
    {NoConfigFile}
    \cup {ConfigFile(d) : d \in {YamlError, YamlNull, YamlSequence}}
    \cup {ConfigFile(YamlMapping(c)) : c \in WellFormedConfigs \cup MalformedSections}

\* Runs that every sub-script can have: the interpreter does not start; it
\* exits 1 with a traceback; it exits 2 because the script file cannot be
\* opened; it exits 0 with a stdout that is no JSON, or no JSON object.
FailureRuns ==
    {SpawnFailure, Proc(1, NotJson), Proc(2, NotJson), Proc(0, NotJson), Proc(0, JsonArray)}

\* A sub-script failed: it could not be started, exited with an error status,
\* or printed something that is not a JSON object.
SubScriptFailed(proc) ==
    \/ ~proc.spawned
    \/ proc.returncode # 0
    \/ ~proc.stdout.json
    \/ ~proc.stdout.is_object

\* task-detector.py prints {"task_type": ...} and exits 0.
TaskDetectorRuns ==
    FailureRuns
    \cup {Proc(0, JsonObject([task_type |-> t])) : t \in {"debug", "implement", "unknown"}}
    \cup {Proc(0, JsonObject(EmptyDict))}

\* file-detector.py prints {"file_types": [...]} and exits 0, or its error
\* output and exits 2 (lines 143-151).
FileDetectorRuns ==
    FailureRuns
    \cup {Proc(0, JsonObject([file_types |-> f])) : f \in {<<>>, <<".ts">>, <<".py", "app.py">>}}
    \cup {Proc(2, JsonObject([file_types |-> <<>>, error |-> "Invalid JSON input"]))}
    \cup {Proc(0, JsonObject(EmptyDict))}

Skills(pattern, lens) ==
    [k \in 1..Len(lens) |->
        [name |-> "skill" \o ToString(k), content |-> TextOf(pattern, lens[k])]]

\* What standards-loader.py prints (lines 217-235): the matched standards, each
\* with at least one skill, and the precedence note when there are several.
\* The loader gets as far as these lines only for a configuration whose
\* standards.enabled list it can read (line 205).
StandardsOutputs ==
    {[standards |-> <<>>]}
    \cup {[standards |-> <<[plugin_name |-> "typescript", skills |-> Skills("abc", lens),
                            priority |-> 0]>>] :
            lens \in {<<20>>, <<61>>, <<20, 20>>}}
    \cup {[standards |-> <<[plugin_name |-> "typescript", skills |-> Skills("abc", l1),
                            priority |-> 0],
                           [plugin_name |-> "python", skills |-> Skills("xyz", l2),
                            priority |-> 1]>>,
           precedence_note |-> "Multiple standards apply. typescript takes precedence."] :
            l1 \in {<<20>>, <<61>>}, l2 \in {<<20>>, <<61>>}}

StandardsLoaderRuns ==
    FailureRuns
    \cup {Proc(0, JsonObject(o)) : o \in StandardsOutputs}
    \cup {Proc(2, JsonObject([standards |-> <<>>, error |-> "Invalid JSON input"]))}

\* budget-manager.py's main, lines 214-228: an exception in the script (the
\* comparison of a token count with a max_tokens that is no number, say) is
\* caught, the error output printed and 2 returned.
BudgetManagerError ==
    Proc(2, JsonObject([selected_items |-> <<>>,
                        exclusion_summary |-> "Error: '<=' not supported"]))

\* budget-manager.py's main (lines 194-212) on the items and the configuration
\* file the loader names.
BudgetManagerRuns(items, cfg) ==
    FailureRuns
    \cup {Proc(0, JsonObject(manage_budget(items, get_token_budget(cfg),
                                           get_overflow_behavior(cfg))))}
    \cup {BudgetManagerError}

\* product-context.py:189, without the command names the message goes on with.
NoProductContext ==
    "## Product Context\n\n*No product context available.*"

\* product-context.py prints {"product_context": ...} and exits 0.
ProductContextRuns ==
    FailureRuns
    \cup {Proc(0, JsonObject([product_context |-> t])) :
            t \in {"", NoProductContext,
                   "## Product Context\n\n### Product Mission\n\n**App** tests budgets."}}
    \cup {Proc(0, JsonObject(EmptyDict))}

PipelineInit ==
    BudgetIdle /\ PipelineIdle /\ ClassifierIdle /\ StandardsIdle /\ RoadmapIdle /\ ValidatorIdle

\* main() goes on to the next stage.
Advance ==
    /\ pc' = NextStage(pc)
    /\ trace' = Append(trace, NextStage(pc))
    /\ UNCHANGED <<exit_code, stdout>>

\* main() prints an error output and returns 2.
Fail(message) ==
    /\ pc' = "FAIL"
    /\ trace' = Append(trace, "FAIL")
    /\ exit_code' = 2
    /\ stdout' = Append(stdout, create_error_output(message))

\* An exception leaves main(): the interpreter prints a traceback to stderr
\* and exits with status 1.
Crash ==
    /\ pc' = "CRASH"
    /\ trace' = Append(trace, "CRASH")
    /\ exit_code' = 1
    /\ UNCHANGED stdout

NoteRun(stage, proc) ==
    failed' = IF SubScriptFailed(proc) THEN failed \cup {stage} ELSE failed

\* Lines 390-400: json.load(sys.stdin), then .get on the payload.
ReadInput ==
    /\ pc = "START"
    /\ \E payload \in {"object", "not_json", "not_object"} :
          IF payload = "not_json"
          THEN Fail("Error: Invalid JSON input. Please run /red64:init to set up your project.")
          ELSE IF payload = "not_object"
          THEN Crash
          ELSE Advance
    /\ UNCHANGED <<config_file, config, task_type, file_types, standards_result,
                   standards_context_items, budget_result, standards_context,
                   product_context, failed>>
    /\ UNCHANGED <<bvars, cvars, svars, rvars, hvars>>

\* Lines 402-418: find_config_path and load_config on the file that is there.
\* main() catches ConfigNotFoundError and ConfigMalformedError; the
\* AttributeError that merge_with_defaults raises on a section that is no
\* mapping leaves main().
ConfigCheck ==
    /\ pc = "CONFIG_CHECK"
    /\ \E file \in ConfigFiles :
          LET loaded == load_config(file)
          IN  /\ config_file' = file
              /\ IF loaded.raised = "ConfigNotFoundError"
                 THEN /\ Fail("Error: Red64 configuration not found. Please run /red64:init to initialize your project.")
                      /\ UNCHANGED config
                 ELSE IF loaded.raised = "ConfigMalformedError"
                 THEN /\ Fail("Error: Red64 configuration is malformed. " \o loaded.message
                                \o " Please run /red64:init to reinitialize your project.")
                      /\ UNCHANGED config
                 ELSE IF loaded.raised # ""
                 THEN Crash /\ UNCHANGED config
                 ELSE /\ config' = loaded.returned
                      /\ Advance
    /\ UNCHANGED <<task_type, file_types, standards_result, standards_context_items,
                   budget_result, standards_context, product_context, failed>>
    /\ UNCHANGED <<bvars, cvars, svars, rvars, hvars>>

\* Lines 420-424.
Classify ==
    /\ pc = "CLASSIFY"
    /\ \E proc \in TaskDetectorRuns :
          LET call == CallSite(proc)
          IN  /\ NoteRun("CLASSIFY", proc)
              /\ IF call.kind = "uncaught"
                 THEN Crash /\ UNCHANGED task_type
                 ELSE /\ task_type' = IF call.kind = "except" THEN "unknown"
                                      ELSE Get(call.value, "task_type", "unknown")
                      /\ Advance
    /\ UNCHANGED <<config_file, config, file_types, standards_result, standards_context_items,
                   budget_result, standards_context, product_context>>
    /\ UNCHANGED <<bvars, cvars, svars, rvars, hvars>>

\* Lines 426-430.
FileDetect ==
    /\ pc = "FILE_DETECT"
    /\ \E proc \in FileDetectorRuns :
          LET call == CallSite(proc)
          IN  /\ NoteRun("FILE_DETECT", proc)
              /\ IF call.kind = "uncaught"
                 THEN Crash /\ UNCHANGED file_types
                 ELSE /\ file_types' = IF call.kind = "except" THEN <<>>
                                       ELSE Get(call.value, "file_types", <<>>)
                      /\ Advance
    /\ UNCHANGED <<config_file, config, task_type, standards_result, standards_context_items,
                   budget_result, standards_context, product_context>>
    /\ UNCHANGED <<bvars, cvars, svars, rvars, hvars>>

\* Lines 432-443.
StandardsMatch ==
    /\ pc = "STANDARDS_MATCH"
    /\ LET token_budget_priority ==
               Get(Get(config, "standards", EmptyDict), "token_budget_priority", 3)
       IN  IF Len(file_types) = 0
           THEN /\ standards_result' = [standards |-> <<>>]
                /\ standards_context_items' = <<>>
                /\ UNCHANGED failed
                /\ Advance
           ELSE \E proc \in StandardsLoaderRuns :
                   LET call == CallSite(proc)
                   IN  /\ NoteRun("STANDARDS_MATCH", proc)
                       /\ IF call.kind = "uncaught"
                          THEN Crash /\ UNCHANGED <<standards_result, standards_context_items>>
                          ELSE IF call.kind = "except"
                          THEN /\ standards_result' = [standards |-> <<>>]
                               /\ standards_context_items' = <<>>
                               /\ Advance
                          ELSE /\ standards_result' = call.value
                               /\ standards_context_items' =
                                     create_standards_context_items(call.value,
                                                                    token_budget_priority)
                               /\ Advance
    /\ UNCHANGED <<config_file, config, task_type, file_types, budget_result, standards_context,
                   product_context>>
    /\ UNCHANGED <<bvars, cvars, svars, rvars, hvars>>

\* Lines 445-453.
BudgetAllocate ==
    /\ pc = "BUDGET_ALLOCATE"
    /\ \E proc \in BudgetManagerRuns(standards_context_items, config) :
          LET call == CallSite(proc)
          IN  /\ NoteRun("BUDGET_ALLOCATE", proc)
              /\ IF call.kind = "uncaught"
                 THEN Crash /\ UNCHANGED <<budget_result, standards_context>>
                 ELSE /\ budget_result' =
                            IF call.kind = "except"
                            THEN [selected_items |-> standards_context_items]
                            ELSE call.value
                      /\ standards_context' =
                            format_standards_context(
                                standards_result,
                                Get(budget_result', "selected_items", <<>>))
                      /\ Advance
    /\ UNCHANGED <<config_file, config, task_type, file_types, standards_result,
                   standards_context_items, product_context>>
    /\ UNCHANGED <<bvars, cvars, svars, rvars, hvars>>

\* Line 455.
ProductContext ==
    /\ pc = "PRODUCT_CONTEXT"
    /\ \E proc \in ProductContextRuns :
          LET call == CallSite(proc)
          IN  /\ NoteRun("PRODUCT_CONTEXT", proc)
              /\ IF call.kind = "uncaught"
                 THEN Crash /\ UNCHANGED product_context
                 ELSE /\ product_context' = get_product_context(call)
                      /\ Advance
    /\ UNCHANGED <<config_file, config, task_type, file_types, standards_result,
                   standards_context_items, budget_result, standards_context>>
    /\ UNCHANGED <<bvars, cvars, svars, rvars, hvars>>

\* Lines 457-467.
Format ==
    /\ pc = "FORMAT"
    /\ pc' = NextStage(pc)
    /\ trace' = Append(trace, NextStage(pc))
    /\ stdout' = Append(stdout,
                        create_success_output(
                            format_additional_context(task_type, file_types, budget_result,
                                                      product_context, standards_context)))
    /\ exit_code' = 0
    /\ UNCHANGED <<config_file, config, task_type, file_types, standards_result,
                   standards_context_items, budget_result, standards_context,
                   product_context, failed>>
    /\ UNCHANGED <<bvars, cvars, svars, rvars, hvars>>

PipelineNext ==
    \/ ReadInput
    \/ ConfigCheck
    \/ Classify
    \/ FileDetect
    \/ StandardsMatch
    \/ BudgetAllocate
    \/ ProductContext
    \/ Format

PipelineSpec == PipelineInit /\ [][PipelineNext]_vars

(***************************************************************************)
(* The detectors on their own: task-detector.py once and file-detector.py  *)
(* twice on one prompt, each run a process of its own.                     *)
(***************************************************************************)
MaxWords == 2

Words ==
    {"Debug", "FIX", "latest", "review", "Write", "spec", "plan", "the",
     "config.yaml", "hooks.json", "src/app.ts", "python"}

\* The prompts of the detectors' examples.
ExamplePrompts ==
    {"Debug this failing test",
     "Write a spec for X",
     "Edit the config.yaml file and update hooks.json"}

Prompts ==
    ExamplePrompts
    \cup {Join(words, " ") : words \in UNION {[1..n -> Words] : n \in 1..MaxWords}}

ClassifierInit ==
    /\ RoadmapIdle
    /\ ValidatorIdle
    /\ BudgetIdle
    /\ PipelineIdle
    /\ StandardsIdle
    /\ prompt \in Prompts
    /\ file_types2 = <<>>
    /\ cpc = "input"

\* task-detector.py main(), lines 126-152, on {"prompt": prompt}.
DetectTask ==
    /\ cpc = "input"
    /\ task_type' = detect_task_type(prompt)
    /\ cpc' = "task"
    /\ UNCHANGED <<pc, exit_code, stdout, config_file, config, file_types, standards_result,
                   standards_context_items, budget_result, standards_context,
                   product_context, trace, failed>>
    /\ UNCHANGED <<bvars, svars, prompt, file_types2, rvars, hvars>>

\* file-detector.py main(), lines 125-156, on {"prompt": prompt}.
DetectFiles ==
    /\ cpc = "task"
    /\ file_types' \in detect_file_types(prompt)
    /\ cpc' = "files"
    /\ UNCHANGED <<pc, exit_code, stdout, config_file, config, task_type, standards_result,
                   standards_context_items, budget_result, standards_context,
                   product_context, trace, failed>>
    /\ UNCHANGED <<bvars, svars, prompt, file_types2, rvars, hvars>>

\* file-detector.py main() on the same input, in another process.
DetectFilesAgain ==
    /\ cpc = "files"
    /\ file_types2' \in detect_file_types(prompt)
    /\ cpc' = "files again"
    /\ UNCHANGED <<pvars, bvars, svars, prompt, rvars, hvars>>

ClassifierNext == DetectTask \/ DetectFiles \/ DetectFilesAgain

ClassifierSpec == ClassifierInit /\ [][ClassifierNext]_vars

(***************************************************************************)
(* The standards path of main(), lines 432-467, with every sub-script run  *)
(* ending normally: the standards are matched by standards-loader.py, or   *)
(* by its lines 206-235 on an enabled list given to them; then the budget  *)
(* is allocated and the context rendered.                                  *)
(***************************************************************************)
\* standards-loader.py's main() on {"file_types": ..., "cwd": ...}: the
\* process as context-loader.py sees it.
StandardsLoaderRun(fileTypes, file, plugins_dir) ==
    LET outcome == load_standards_for_file_types(fileTypes, file, plugins_dir)
    IN  IF outcome.raised = "" THEN Proc(0, JsonObject(outcome.returned))
        ELSE Proc(2, JsonObject([standards |-> <<>>, error |-> outcome.raised]))

PluginNames == {"typescript", "react"}

\* The plugin directories a name can stand for; the pattern is the text its
\* skill files are made of.
PluginDirs(pattern) ==
    {NoPlugin,
     PluginDir(EmptyDict, SkillsDir(<<SkillFile("naming", TextOf(pattern, 20))>>)),
     PluginDir([file_patterns |-> <<"*.py">>],
               SkillsDir(<<SkillFile("naming", TextOf(pattern, 20))>>))}
    \cup {PluginDir([file_patterns |-> <<"*.ts", "*.tsx">>], skills_dir) :
            skills_dir \in
                {NoSkillsDir,
                 SkillsDir(<<>>),
                 SkillsDir(<<UnreadableFile("naming")>>),
                 SkillsDir(<<SkillFile("naming", "")>>),
                 SkillsDir(<<SkillFile("naming", TextOf(pattern, 20))>>),
                 SkillsDir(<<SkillFile("naming", TextOf(pattern, 61))>>),
                 SkillsDir(<<UnreadableFile("naming"),
                             SkillFile("types", TextOf(pattern, 20))>>)}}

PluginStores ==
    {[typescript |-> t, react |-> r] : t \in PluginDirs("abc"), r \in PluginDirs("xyz")}

EnabledLists ==
    {<<>>, <<"typescript">>, <<"react">>, <<"typescript", "react">>,
     <<"react", "typescript">>}

FileSignals == {<<>>, <<".ts">>, <<"app.py">>, <<"README.md", "src/app.ts/">>}

\* truncate off, exclude and summary on.
ExcludeOnly == [AllEnabled EXCEPT !.truncate = FALSE]

\* .red64/config.yaml with the enabled list in its standards section.
StandardsConfigFiles(enabled) ==
    {ConfigFile(YamlMapping(
         [version |-> "1.0",
          token_budget |-> section,
          standards |-> YamlMapping([enabled |-> enabled, token_budget_priority |-> 2])])) :
        section \in {BudgetSection(30, AllEnabled), BudgetSection(11, AllEnabled),
                     BudgetSection(11, ExcludeOnly)}}

\* main() has read its input and loaded the configuration (lines 390-418),
\* and the detectors have returned (lines 420-430).
StandardsInit ==
    /\ RoadmapIdle
    /\ ValidatorIdle
    /\ BudgetIdle
    /\ ClassifierIdle
    /\ pc = "START"
    /\ exit_code = -1
    /\ stdout = <<>>
    /\ plugins \in PluginStores
    /\ enabled_standards \in EnabledLists
    /\ config_file \in StandardsConfigFiles(enabled_standards)
    /\ config = load_config(config_file).returned
    /\ task_type = "implement"
    /\ file_types \in FileSignals
    /\ standards_result = [standards |-> <<>>]
    /\ standards_context_items = <<>>
    /\ budget_result = [selected_items |-> <<>>]
    /\ standards_context = ""
    /\ product_context = ""
    /\ trace = <<"START">>
    /\ failed = {}
    /\ via = ""
    /\ spc = "input"

\* context-loader.py line 434.
TokenBudgetPriority ==
    Get(Get(config, "standards", EmptyDict), "token_budget_priority", 3)

\* Lines 436-441 with the script's run: the run ends with status 0 or 2 and
\* a JSON object, which run_sub_script returns.
LoadStandards ==
    /\ spc = "input"
    /\ via' = "loader"
    /\ standards_result' =
          IF Len(file_types) = 0 THEN [standards |-> <<>>]
          ELSE CallSite(StandardsLoaderRun(file_types, config_file, plugins)).value
    /\ standards_context_items' =
          create_standards_context_items(standards_result', TokenBudgetPriority)
    /\ spc' = "matched"
    /\ UNCHANGED <<pc, exit_code, stdout, config_file, config, task_type, file_types,
                   budget_result, standards_context, product_context, trace, failed>>
    /\ UNCHANGED <<bvars, cvars, plugins, enabled_standards, rvars, hvars>>

\* standards-loader.py lines 206-235 on the enabled list, and lines 438-441
\* of context-loader.py on their result.
MatchStandards ==
    /\ spc = "input"
    /\ via' = "matcher"
    /\ standards_result' = MatchEnabled(file_types, enabled_standards, plugins)
    /\ standards_context_items' =
          create_standards_context_items(standards_result', TokenBudgetPriority)
    /\ spc' = "matched"
    /\ UNCHANGED <<pc, exit_code, stdout, config_file, config, task_type, file_types,
                   budget_result, standards_context, product_context, trace, failed>>
    /\ UNCHANGED <<bvars, cvars, plugins, enabled_standards, rvars, hvars>>

\* Lines 445-453.
AllocateStandards ==
    /\ spc = "matched"
    /\ budget_result' = manage_budget(standards_context_items, get_token_budget(config),
                                      get_overflow_behavior(config))
    /\ standards_context' =
          format_standards_context(standards_result,
                                   Get(budget_result', "selected_items", <<>>))
    /\ spc' = "allocated"
    /\ UNCHANGED <<pc, exit_code, stdout, config_file, config, task_type, file_types,
                   standards_result, standards_context_items, product_context, trace,
                   failed>>
    /\ UNCHANGED <<bvars, cvars, plugins, enabled_standards, via, rvars, hvars>>

\* Lines 457-467.
RenderStandards ==
    /\ spc = "allocated"
    /\ stdout' = Append(stdout,
                        create_success_output(
                            format_additional_context(task_type, file_types, budget_result,
                                                      product_context, standards_context)))
    /\ spc' = "rendered"
    /\ UNCHANGED <<pc, exit_code, config_file, config, task_type, file_types,
                   standards_result, standards_context_items, budget_result,
                   standards_context, product_context, trace, failed>>
    /\ UNCHANGED <<bvars, cvars, plugins, enabled_standards, via, rvars, hvars>>

StandardsNext == LoadStandards \/ MatchStandards \/ AllocateStandards \/ RenderStandards

StandardsSpec == StandardsInit /\ [][StandardsNext]_vars

(***************************************************************************)
(* Vocabulary of the allocator's properties.                               *)
(***************************************************************************)
Ran == bpc # "input"

Selected == output.selected_items

InputIndex(name) ==
    CHOOSE k \in 1..Len(context_items) : context_items[k].name = name

Original(name) == context_items[InputIndex(name)]

SelectedNames == {Selected[j].name : j \in 1..Len(Selected)}

\* A selected item whose content is no longer its input content.
IsTruncated(j) == Selected[j].content # Original(Selected[j].name).content

\* What was left of the budget when selected item j was reached.
RemainingBefore(j) == max_tokens - calculate_total_tokens(SubSeq(Selected, 1, j - 1))

HasSummary == "exclusion_summary" \in DOMAIN output

Overflow == calculate_total_tokens(context_items) > max_tokens

\* The input in priority order, and in it the names that were not selected.
InPriorityOrder == sort_by_priority(context_items)

IsDropped(item) == item.name \notin SelectedNames

DroppedNames ==
    LET dropped == SelectSeq(InPriorityOrder, IsDropped)
    IN  [k \in 1..Len(dropped) |-> dropped[k].name]

\* The branch of lines 166-172 produced selected item j: exclusion is off and
\* the truncation step (lines 153-162) did not accept the item.
ForcedTruncation(j) ==
    /\ IsTruncated(j)
    /\ ~Flag(overflow_behavior, "exclude")
    /\ \/ ~Flag(overflow_behavior, "truncate")
       \/ estimate_tokens(Selected[j].content) <= 10

AnyForcedTruncation == \E j \in 1..Len(Selected) : ForcedTruncation(j)

\* The exclusion summary names the item.
InSummary(name) ==
    /\ HasSummary
    /\ Contains(output.exclusion_summary, name)

(***************************************************************************)
(* C1: the estimated tokens of the selected items sum to at most           *)
(* max_tokens, except possibly when the forced-truncation branch           *)
(* (exclusion disabled) was taken.                                         *)
(***************************************************************************)
C1_SelectedWithinBudget ==
    (Ran /\ ~AnyForcedTruncation) => calculate_total_tokens(Selected) <= max_tokens

\* An overflowing input, an item truncated by the truncation step, budget used up.
C1_Witness ==
    /\ Ran /\ Overflow /\ ~AnyForcedTruncation
    /\ \E j \in 1..Len(Selected) : IsTruncated(j)
    /\ calculate_total_tokens(Selected) = max_tokens

(***************************************************************************)
(* C3: when the input's total estimated tokens are <= max_tokens, every    *)
(* input item is returned with its content unmodified, none is dropped and *)
(* there is no exclusion summary, whatever the flags.                      *)
(***************************************************************************)
C3_UnderBudgetUnmodified ==
    (Ran /\ ~Overflow) =>
        /\ Len(Selected) = Len(context_items)
        /\ \A i \in 1..Len(context_items) :
              \E j \in 1..Len(Selected) : Selected[j] = context_items[i]
        /\ ~HasSummary

\* Three items, two of them of equal priority, exactly filling the budget.
C3_Witness ==
    /\ Ran /\ ~Overflow
    /\ Len(context_items) = 3
    /\ calculate_total_tokens(context_items) = max_tokens
    /\ \E i, k \in 1..3 : i # k /\ PriorityKey(context_items[i]) = PriorityKey(context_items[k])
    /\ Len(Selected) = 3

(***************************************************************************)
(* C4: the selected items are in non-decreasing priority order (the sort   *)
(* key, 999 for an item without priority), items of equal priority in      *)
(* their input order, on the under-budget path and after the overflow walk.*)
(***************************************************************************)
C4_SelectedSortedStable ==
    Ran =>
        \A i, j \in 1..Len(Selected) :
            i < j =>
                /\ PriorityKey(Selected[i]) <= PriorityKey(Selected[j])
                /\ PriorityKey(Selected[i]) = PriorityKey(Selected[j])
                     => InputIndex(Selected[i].name) < InputIndex(Selected[j].name)

\* An overflow walk whose input was not in priority order and had a tie that
\* both survived.
C4_Witness ==
    /\ Ran /\ Overflow
    /\ \E a, b \in 1..Len(context_items) :
          a < b /\ PriorityKey(context_items[a]) > PriorityKey(context_items[b])
    /\ \E i, j \in 1..Len(Selected) :
          i < j /\ PriorityKey(Selected[i]) = PriorityKey(Selected[j])

(***************************************************************************)
(* C5: manage_budget applied to the selected items it returned, with the   *)
(* same max_tokens and flags, returns the same selected items (same items, *)
(* order and contents).                                                    *)
(***************************************************************************)
C5_Idempotent ==
    bpc = "reallocated" => output2.selected_items = output.selected_items

\* The first call truncated one item and dropped another, and kept a tie.
C5_Witness ==
    /\ bpc = "reallocated"
    /\ \E j \in 1..Len(Selected) : IsTruncated(j)
    /\ Len(Selected) < Len(context_items)
    /\ output2.selected_items = Selected

(***************************************************************************)
(* C6: with truncate, exclude and summary enabled, once an item has been   *)
(* included truncated, every later item in priority order with at least    *)
(* one estimated token is excluded and named in the summary. With budget   *)
(* 150 and two 800-character items of priorities 1 and 2, item 1 is        *)
(* selected within 150 tokens, item 2 is not, and the summary names it.    *)
(***************************************************************************)
C6_BudgetExhaustedAfterTruncation ==
    /\ (Ran /\ overflow_behavior = AllEnabled) =>
          \A a, b \in 1..Len(InPriorityOrder) :
              ( /\ a < b
                /\ \E j \in 1..Len(Selected) :
                      Selected[j].name = InPriorityOrder[a].name /\ IsTruncated(j)
                /\ estimate_tokens(InPriorityOrder[b].content) >= 1 )
              => /\ InPriorityOrder[b].name \notin SelectedNames
                 /\ InSummary(InPriorityOrder[b].name)
    /\ (Ran /\ context_items = ScenarioTwoItems.items /\ max_tokens = 150
            /\ overflow_behavior = AllEnabled) =>
          /\ Len(Selected) = 1
          /\ Selected[1].name = "item1"
          /\ estimate_tokens(Selected[1].content) <= 150
          /\ InSummary("item2")

\* The test's scenario has run.
C6_Witness ==
    /\ Ran /\ context_items = ScenarioTwoItems.items /\ max_tokens = 150
    /\ overflow_behavior = AllEnabled
    /\ IsTruncated(1)
    /\ InSummary("item2")

(***************************************************************************)
(* C7: an item returned in truncated form has as content the first         *)
(* remaining_budget * 4 characters of the original followed by "...", so   *)
(* its length is at most max_tokens * 4 + 3 and its estimated tokens equal *)
(* the remaining budget; a single 16000-character item under the default   *)
(* 3000-token budget comes back with at most 12003 characters.             *)
(***************************************************************************)
C7_TruncatedForm ==
    /\ Ran =>
          \A j \in 1..Len(Selected) :
              IsTruncated(j) =>
                  LET original == Original(Selected[j].name).content
                      remaining == RemainingBefore(j)
                  IN  /\ remaining > 0
                      /\ Selected[j].content =
                            SubSeq(original, 1, remaining * 4) \o "..."
                      /\ Len(Selected[j].content) <= max_tokens * 4 + 3
                      /\ estimate_tokens(Selected[j].content) = remaining
    /\ (Ran /\ context_items = ScenarioLargeItem.items /\ max_tokens = 3000) =>
          /\ Len(Selected) = 1
          /\ Len(Selected[1].content) <= 12003

\* The 16000-character item came back truncated to 12003 characters.
C7_Witness ==
    /\ Ran /\ context_items = ScenarioLargeItem.items /\ max_tokens = 3000
    /\ IsTruncated(1)
    /\ Len(Selected[1].content) = 12003

(***************************************************************************)
(* C8, as stated: the sentence "Excluded <N> item(s) due to budget:        *)
(* <names>" is produced whenever at least one input item was dropped from  *)
(* the selection and the summary flag is enabled, and never otherwise; N   *)
(* is the number of dropped items and the names are the dropped items'     *)
(* names in priority order.                                                *)
(***************************************************************************)
C8_Original_SummaryIffDropped ==
    Ran =>
        /\ HasSummary <=> (DroppedNames # <<>> /\ Flag(overflow_behavior, "summary"))
        /\ HasSummary =>
              output.exclusion_summary =
                  "Excluded " \o ToString(Len(DroppedNames)) \o " item(s) due to budget: "
                      \o Join(DroppedNames, ", ")

(***************************************************************************)
(* C8, amended: the sentence is produced whenever at least one input item  *)
(* was dropped from the selection and both the exclude flag and the        *)
(* summary flag are enabled, and never otherwise (with exclusion disabled  *)
(* an item that finds no budget left is dropped without being recorded);   *)
(* N is the number of dropped items and the names are the dropped items'   *)
(* names in priority order.                                                *)
(***************************************************************************)
C8_SummaryIffExcluded ==
    Ran =>
        /\ HasSummary <=> ( /\ DroppedNames # <<>>
                            /\ Flag(overflow_behavior, "exclude")
                            /\ Flag(overflow_behavior, "summary") )
        /\ HasSummary =>
              output.exclusion_summary =
                  "Excluded " \o ToString(Len(DroppedNames)) \o " item(s) due to budget: "
                      \o Join(DroppedNames, ", ")

\* Two items were excluded and the summary names both.
C8_Witness ==
    /\ Ran /\ HasSummary
    /\ Len(DroppedNames) = 2
    /\ output.exclusion_summary = "Excluded 2 item(s) due to budget: item1, item3"

(***************************************************************************)
(* Vocabulary of the pipeline's properties.                                *)
(***************************************************************************)
\* The additionalContext of the hook output main() printed last.
FinalContext == stdout[Len(stdout)].hookSpecificOutput.additionalContext

PreviousStage == trace[Len(trace) - 1]

SubStages == {"CLASSIFY", "FILE_DETECT", "STANDARDS_MATCH", "PRODUCT_CONTEXT"}

StartsWith(text, prefix) ==
    Len(text) >= Len(prefix) /\ SubSeq(text, 1, Len(prefix)) = prefix

FirstNewline(text) ==
    IF \E i \in 1..Len(text) : SubSeq(text, i, i) = "\n"
    THEN CHOOSE i \in 1..Len(text) :
            /\ SubSeq(text, i, i) = "\n"
            /\ \A k \in 1..(i - 1) : SubSeq(text, k, k) # "\n"
    ELSE 0

RECURSIVE SplitLines(_)
SplitLines(text) ==
    IF FirstNewline(text) = 0 THEN <<text>>
    ELSE <<SubSeq(text, 1, FirstNewline(text) - 1)>>
            \o SplitLines(SubSeq(text, FirstNewline(text) + 1, Len(text)))

\* The rule-document lines of a standards block: neither blank, nor a
\* "## Standards:" heading, nor the precedence note.
IsRuleLine(line) ==
    /\ line # ""
    /\ ~StartsWith(line, "## Standards: ")
    /\ ~StartsWith(line, "*Note: ")

\* Estimated tokens of the rule text alone, line by line (headings and
\* separators not counted).
RuleTextTokens(block) ==
    LET rule_lines == SelectSeq(SplitLines(block), IsRuleLine)
    IN  SumSeq([k \in 1..Len(rule_lines) |-> estimate_tokens(rule_lines[k])])

\* The stages entered so far are the first stages of StageOrder, in order,
\* possibly followed by the end of a run that stopped early.
TraceInOrder ==
    \E n \in 1..Len(StageOrder) :
        /\ n <= Len(trace)
        /\ SubSeq(trace, 1, n) = SubSeq(StageOrder, 1, n)
        /\ \/ Len(trace) = n
           \/ Len(trace) = n + 1 /\ trace[n + 1] \in {"FAIL", "CRASH"}

\* The run has left the stage behind: it entered a later one.
Past(stage) ==
    \E k \in 1..Len(trace) :
        trace[k] \notin {"FAIL", "CRASH"} /\ StageIndex(trace[k]) > StageIndex(stage)

C9_Original_FailOnlyFromConfigCheck ==
    /\ TraceInOrder
    /\ pc = "FAIL" => PreviousStage = "CONFIG_CHECK"
    /\ exit_code = 2 => (pc = "FAIL" /\ PreviousStage = "CONFIG_CHECK")

(***************************************************************************)
(* C9, amended: the stages are entered only in the order START,            *)
(* CONFIG_CHECK, CLASSIFY, FILE_DETECT, STANDARDS_MATCH, BUDGET_ALLOCATE,  *)
(* PRODUCT_CONTEXT, FORMAT, DONE, none repeated or reordered, and a run    *)
(* that reaches DONE has passed through all of them; the blocking FAIL     *)
(* outcome (exit status 2) is reachable only from START (the request       *)
(* payload is no JSON) and from CONFIG_CHECK: no later stage ends the run  *)
(* in FAIL.                                                                *)
(***************************************************************************)
C9_StageOrder ==
    /\ TraceInOrder
    /\ trace[Len(trace)] = pc
    /\ pc = "DONE" => trace = StageOrder
    /\ pc = "FAIL" => PreviousStage \in {"START", "CONFIG_CHECK"}
    /\ exit_code = 2 <=> pc = "FAIL"

\* A run went through every stage to DONE although a sub-script failed.
C9_Witness ==
    /\ pc = "DONE"
    /\ trace = StageOrder
    /\ exit_code = 0
    /\ failed # {}

(***************************************************************************)
(* C10: once the config check has passed, a failure of the CLASSIFY,       *)
(* FILE_DETECT, STANDARDS_MATCH or PRODUCT_CONTEXT sub-stage (the          *)
(* sub-script exits with an error, cannot be started, or prints something  *)
(* that is not the expected JSON object) is replaced by the stage's        *)
(* default (task type unknown, no file signals, no standards, no product   *)
(* context), and the run still reaches DONE with exit status 0 and a       *)
(* structured output; no sub-stage failure escapes as an uncaught          *)
(* exception.                                                              *)
(***************************************************************************)
C10_SubStageFailuresDefaulted ==
    /\ pc = "CRASH" => PreviousStage \notin SubStages
    /\ ("CLASSIFY" \in failed /\ Past("CLASSIFY")) => task_type = "unknown"
    /\ ("FILE_DETECT" \in failed /\ Past("FILE_DETECT")) => file_types = <<>>
    /\ ("STANDARDS_MATCH" \in failed /\ Past("STANDARDS_MATCH")) =>
            /\ standards_result.standards = <<>>
            /\ standards_context_items = <<>>
    /\ ("PRODUCT_CONTEXT" \in failed /\ Past("PRODUCT_CONTEXT")) => product_context = ""
    /\ pc = "DONE" =>
            /\ exit_code = 0
            /\ Len(stdout) = 1
            /\ StartsWith(FinalContext, "## Red64 Context")

(***************************************************************************)
(* Vocabulary of the configuration check's properties.                     *)
(***************************************************************************)
\* The configuration check has run: the run entered CONFIG_CHECK and left it.
ConfigChecked == Len(trace) >= 3

\* The check passed and main() went on with the loaded configuration.
ConfigLoaded == ConfigChecked /\ trace[3] = "CLASSIFY"

ConfigMissing == ~config_file.exists

\* The sections that config_schema.py:50-57 declares as mappings.
MappingSections == {"token_budget", "context_loader", "priorities", "features"}

\* The file is there and is not a configuration: no YAML, empty, no mapping,
\* or a mapping in which a section that has to be a mapping is none.
ConfigMalformed ==
    /\ config_file.exists
    /\ \/ ~IsMapping(config_file.document)
       \/ LET sections == config_file.document.value
          IN  \/ \E section \in DOMAIN sections \cap MappingSections :
                    ~IsMapping(sections[section])
              \/ /\ "token_budget" \in DOMAIN sections
                 /\ IsMapping(sections.token_budget)
                 /\ "overflow_behavior" \in DOMAIN sections.token_budget.value
                 /\ ~IsMapping(sections.token_budget.value.overflow_behavior)

\* The standards section as the file has it; no entries when it has none.
WrittenStandards ==
    Get(config_file.document.value, "standards", YamlMapping(EmptyDict)).value

(***************************************************************************)
(* C11: whenever the project configuration is missing or malformed, the    *)
(* context loader runs no pipeline stage, prints one structured hook       *)
(* output whose additionalContext carries the hint "/red64:init", and      *)
(* exits with the blocking status 2, never with status 0 and never with an *)
(* uncaught exception.                                                     *)
(***************************************************************************)
C11_ConfigUnavailableBlocks ==
    (ConfigChecked /\ (ConfigMissing \/ ConfigMalformed)) =>
        /\ pc = "FAIL"
        /\ trace = <<"START", "CONFIG_CHECK", "FAIL">>
        /\ exit_code = 2
        /\ Len(stdout) = 1
        /\ Contains(FinalContext, "/red64:init")

(***************************************************************************)
(* C13: the configuration that load_config returns contains a standards    *)
(* section: standards.enabled and standards.token_budget_priority of the   *)
(* file are preserved unchanged, the order of enabled included, and when   *)
(* the file has none they are the empty list and 3.                        *)
(***************************************************************************)
C13_StandardsSectionLoaded ==
    ConfigLoaded =>
        /\ "standards" \in DOMAIN config
        /\ config.standards.enabled = Get(WrittenStandards, "enabled", <<>>)
        /\ config.standards.token_budget_priority =
              Get(WrittenStandards, "token_budget_priority", 3)

(***************************************************************************)
(* Vocabulary of the detectors' properties.                                *)
(***************************************************************************)
TaskDetected == cpc \in {"task", "files", "files again"}
FilesDetected == cpc \in {"files", "files again"}

\* The order in which the categories are scanned.
ScanOrder == <<"debug", "test", "review", "shape", "write-spec", "refactor", "implement">>

\* The keyword occurs in the text, letter case ignored.
OccursIgnoringCase(keyword, text) == Contains(Lower(text), Lower(keyword))

\* A keyword of the category occurs in the prompt, letter case ignored.
HasKeyword(category) ==
    \E k \in 1..Len(KeywordsOf(category)) :
        OccursIgnoringCase(KeywordsOf(category)[k], prompt)

\* The places in the scan order of the categories that have a keyword in
\* the prompt.
PlacesWithKeyword == {i \in 1..Len(ScanOrder) : HasKeyword(ScanOrder[i])}

\* A keyword of the category occurs in the prompt as it is written.
HasKeywordAsWritten(category) == AnyKeywordIn(KeywordsOf(category), prompt)

EditPrompt == "Edit the config.yaml file and update hooks.json"

Occurrences(signal, signals) ==
    Cardinality({k \in 1..Len(signals) : signals[k] = signal})

(***************************************************************************)
(* C14: detect_task_type returns exactly one task type: the first          *)
(* category, in the scan order debug, test, review, shape, write-spec,     *)
(* refactor, implement, that has a keyword occurring in the prompt with    *)
(* letter case ignored, and unknown when no category has one; a prompt     *)
(* with a debug keyword is classified debug whatever else it contains.     *)
(***************************************************************************)
C14_FirstCategoryInScanOrder ==
    TaskDetected =>
        LET places == PlacesWithKeyword
        IN  /\ \A i \in 1..Len(ScanOrder) :
                  task_type = ScanOrder[i] <=>
                      (i \in places /\ \A j \in places : i <= j)
            /\ task_type = "unknown" <=> places = {}
            /\ 1 \in places => task_type = "debug"

\* A prompt whose debug keyword is in capitals, with a keyword of another
\* category in it, has been classified debug.
C14_Witness ==
    /\ TaskDetected
    /\ HasKeyword("debug")
    /\ ~HasKeywordAsWritten("debug")
    /\ \E i \in 2..Len(ScanOrder) : HasKeywordAsWritten(ScanOrder[i])
    /\ task_type = "debug"

(***************************************************************************)
(* C15, as stated: for the prompt "Edit the config.yaml file and update    *)
(* hooks.json", detect_file_types yields a list containing exactly         *)
(* "config.yaml" and "hooks.json", each once.                              *)
(***************************************************************************)
C15_Original_ExactlyTheTwoFilenames ==
    (FilesDetected /\ prompt = EditPrompt) =>
        /\ Len(file_types) = 2
        /\ {file_types[k] : k \in 1..Len(file_types)} = {"config.yaml", "hooks.json"}

(***************************************************************************)
(* C15, amended: no signal occurs twice in the list that detect_file_types *)
(* yields, and for the prompt "Edit the config.yaml file and update        *)
(* hooks.json" the list is the keyword pass's ".js", ".yaml", ".json"      *)
(* followed by "config.yaml" and "hooks.json", each once.                  *)
(***************************************************************************)
C15_FilenamesOnceAfterExtensions ==
    FilesDetected =>
        /\ \A k \in 1..Len(file_types) : Occurrences(file_types[k], file_types) = 1
        /\ prompt = EditPrompt =>
              /\ Len(file_types) = 5
              /\ SubSeq(file_types, 1, 3) = <<".js", ".yaml", ".json">>
              /\ {file_types[4], file_types[5]} = {"config.yaml", "hooks.json"}

C15_Witness ==
    /\ FilesDetected
    /\ prompt = EditPrompt
    /\ Occurrences("config.yaml", file_types) = 1
    /\ Occurrences("hooks.json", file_types) = 1

(***************************************************************************)
(* C16: two invocations of detect_file_types on the same prompt, in        *)
(* different processes included, return the same signals in the same       *)
(* order.                                                                  *)
(***************************************************************************)
C16_SameOrderInEveryProcess ==
    cpc = "files again" => file_types2 = file_types

(***************************************************************************)
(* Vocabulary of the standards path's properties.                          *)
(***************************************************************************)
Matched == spc \in {"matched", "allocated", "rendered"}
Rendered == spc = "rendered"

\* The enabled list as .red64/config.yaml has it.
WrittenEnabled == Get(WrittenStandards, "enabled", <<>>)

\* The plugin of the name is installed and one of its file patterns matches
\* one of the detected file signals.
MatchesSignals(name) ==
    /\ PluginPath(plugins, name).exists
    /\ \E k \in 1..Len(file_types) :
          file_type_matches_patterns(
              file_types[k], get_file_patterns(PluginPath(plugins, name).standards_json))

\* The rule documents of the plugin that can be read, in order.
LoadableDocuments(name) ==
    LET skills_dir == PluginPath(plugins, name).skills_dir
    IN  IF skills_dir.exists
        THEN SelectSeq(skills_dir.files, LAMBDA file : file.readable)
        ELSE <<>>

HasLoadableDocument(name) == Len(LoadableDocuments(name)) > 0

\* The places in the list of the standards that match the file signals.
MatchingPlaces(enabled) ==
    {i \in 1..Len(enabled) : MatchesSignals(enabled[i])}

\* Those of them with a document that can be read.
LoadablePlaces(enabled) ==
    {i \in MatchingPlaces(enabled) : HasLoadableDocument(enabled[i])}

First(places) == CHOOSE i \in places : \A j \in places : i <= j

ReturnedNames ==
    [k \in 1..Len(standards_result.standards) |-> standards_result.standards[k].plugin_name]

\* The place in the enabled list that each returned standard names.
ReturnedPlaces ==
    [k \in 1..Len(standards_result.standards) |-> standards_result.standards[k].priority + 1]

NoteNaming(name) == "Multiple standards apply. " \o name \o " takes precedence."

\* The estimated tokens of the rule documents of the standards in the list
\* that match and can be read.
RECURSIVE RuleTokens(_)
RuleTokens(enabled) ==
    IF enabled = <<>> THEN 0
    ELSE (IF MatchesSignals(Head(enabled)) /\ HasLoadableDocument(Head(enabled))
          THEN LET documents == LoadableDocuments(Head(enabled))
               IN  estimate_tokens(
                       Join([k \in 1..Len(documents) |-> documents[k].content], "\n\n"))
          ELSE 0)
         + RuleTokens(Tail(enabled))

(***************************************************************************)
(* C12: when the configuration enables a standard whose file patterns      *)
(* match a detected file signal and whose plugin has at least one readable *)
(* rule document, and the budget is large enough to hold it, the final     *)
(* additionalContext contains a "## Standards: <identifier>" section with  *)
(* that standard's rule-document content.                                  *)
(***************************************************************************)
C12_EnabledStandardRendered ==
    (Rendered /\ via = "loader") =>
        \A i \in LoadablePlaces(WrittenEnabled) :
            RuleTokens(WrittenEnabled) <= get_token_budget(config) =>
                /\ Contains(FinalContext, "## Standards: " \o WrittenEnabled[i])
                /\ \A k \in 1..Len(LoadableDocuments(WrittenEnabled[i])) :
                      Contains(FinalContext, LoadableDocuments(WrittenEnabled[i])[k].content)

C18_NoteWheneverTwoMatch ==
    (Rendered /\ Cardinality(MatchingPlaces(WrittenEnabled)) >= 2) =>
        Contains(FinalContext,
                 "*Note: "
                     \o NoteNaming(WrittenEnabled[First(MatchingPlaces(WrittenEnabled))])
                     \o "*")

(***************************************************************************)
(* C19: every standard in the matcher's result has at least one loaded     *)
(* rule document; a matching standard with no document that can be loaded  *)
(* (no skills directory, no documents, none readable) is not in the        *)
(* result.                                                                 *)
(***************************************************************************)
C19_EveryStandardHasDocuments ==
    Matched =>
        \A k \in 1..Len(standards_result.standards) :
            /\ Len(standards_result.standards[k].skills) >= 1
            /\ HasLoadableDocument(ReturnedNames[k])
            /\ Len(standards_result.standards[k].skills)
                  = Len(LoadableDocuments(ReturnedNames[k]))

\* A matching standard without a loadable document was left out of a result
\* that has another standard.
C19_Witness ==
    /\ Matched
    /\ via = "matcher"
    /\ \E i \in MatchingPlaces(enabled_standards) :
          /\ ~HasLoadableDocument(enabled_standards[i])
          /\ \A k \in 1..Len(ReturnedNames) : ReturnedNames[k] # enabled_standards[i]
    /\ Len(ReturnedNames) = 1

(***************************************************************************)
(* Vocabulary of the rendered context's properties.                        *)
(***************************************************************************)
\* The run printed the context of a complete run.
ContextRendered == pc = "DONE"

\* The places in the text at which the piece begins.
Positions(text, piece) ==
    {i \in 1..(Len(text) - Len(piece) + 1) : SubSeq(text, i, i + Len(piece) - 1) = piece}

ExclusionSummary == Get(budget_result, "exclusion_summary", "")

\* The sections in the stated order: whether the run has the section, its
\* text when it has, and a label that only this section carries.
Sections ==
    <<[present |-> TRUE,
       text |-> "## Red64 Context\n\n**Detected Task Type:** " \o task_type,
       label |-> "**Detected Task Type:**"],
      [present |-> Len(file_types) > 0,
       text |-> "\n**Detected File Types:** " \o Join(file_types, ", "),
       label |-> "**Detected File Types:**"],
      [present |-> ExclusionSummary # "",
       text |-> "\n\n*" \o ExclusionSummary \o "*",
       label |-> "item(s) due to budget: "],
      [present |-> standards_context # "",
       text |-> "\n\n" \o standards_context,
       label |-> "## Standards: "],
      [present |-> product_context # "",
       text |-> "\n\n" \o product_context,
       label |-> "## Product Context"]>>

(***************************************************************************)
(* C20: the rendered context has its sections in the fixed order: header   *)
(* "## Red64 Context" with the task type line, the file-types line (only   *)
(* if there are file types), the exclusion note (only if there is a        *)
(* summary), the standards block (only if non-empty), the product-context  *)
(* block (only if present); no section stands before an earlier one, none  *)
(* occurs more than once, and the context ends with the last of them.      *)
(***************************************************************************)
C20_SectionsInFixedOrder ==
    ContextRendered =>
        LET present == {n \in 1..Len(Sections) : Sections[n].present}
            At_(n) == Positions(FinalContext, Sections[n].text)
            place(n) == CHOOSE i \in At_(n) : TRUE
        IN  /\ \A n \in present : Cardinality(At_(n)) = 1
            /\ \A n \in 1..Len(Sections) :
                  n \notin present => Positions(FinalContext, Sections[n].label) = {}
            /\ place(1) = 1
            /\ \A m, n \in present :
                  m < n => place(m) + Len(Sections[m].text) <= place(n)
            /\ \A n \in present :
                  (\A m \in present : m <= n) =>
                      place(n) + Len(Sections[n].text) = Len(FinalContext) + 1

\* A complete run has rendered all five sections.
C20_Witness ==
    /\ ContextRendered
    /\ \A n \in 1..Len(Sections) : Sections[n].present
    /\ Cardinality(Positions(FinalContext, "\n\n" \o product_context)) = 1

(***************************************************************************)
(* Vocabulary of the overflow walk's properties. Places are places in the  *)
(* input in priority order, the order of the walk.                         *)
(***************************************************************************)
\* The call has returned and the repeated call has not been made yet: the
\* repeated call leaves the input and the output of the first as they are.
CallReturned == bpc = "allocated"

ExclusionEnabled == Flag(overflow_behavior, "exclude")
TruncationEnabled == Flag(overflow_behavior, "truncate")

\* The walk's list of excluded names, of which the output shows the summary
\* only.
ExcludedIn(order) ==
    IF Overflow
    THEN Walk([selected_items |-> <<>>, excluded_items |-> <<>>, used_tokens |-> 0],
              order, max_tokens, TruncationEnabled, ExclusionEnabled).excluded_items
    ELSE <<>>

ExcludedNames == ExcludedIn(InPriorityOrder)

\* The content is the original's, or a prefix of it followed by "...".
IsPrefixWithMarker(content, original) ==
    /\ Len(content) >= 3
    /\ Len(content) - 3 <= Len(original)
    /\ content = SubSeq(original, 1, Len(content) - 3) \o "..."

\* For every place of the walk, what the input and the output say of its
\* item:
\*   item          the input item at the place;
\*   tokens        its estimated tokens;
\*   remaining     what is left of the budget when the walk reaches it, the
\*                 budget less the selected items from the places in front;
\*   does_not_fit  the item does not fit whole into what is left;
\*   selected      an item of its name is selected;
\*   as            the selected item of its name (the item while there is
\*                 none);
\*   truncated     it is selected with a content that is not its own;
\*   excluded      it is recorded as excluded.
Places ==
    LET order == InPriorityOrder
        chosen == Selected
        excluded_names == ExcludedIn(order)
        overflow == Overflow
    IN  [k \in 1..Len(order) |->
            LET item == order[k]
                before == {order[a].name : a \in 1..(k - 1)}
                remaining ==
                    max_tokens
                    - calculate_total_tokens(
                          SelectSeq(chosen, LAMBDA x : x.name \in before))
                found == {j \in 1..Len(chosen) : chosen[j].name = item.name}
                as == IF found = {} THEN item ELSE chosen[CHOOSE j \in found : TRUE]
            IN  [item |-> item,
                 tokens |-> estimate_tokens(item.content),
                 remaining |-> remaining,
                 does_not_fit |-> overflow /\ estimate_tokens(item.content) > remaining,
                 selected |-> found # {},
                 as |-> as,
                 truncated |-> found # {} /\ as.content # item.content,
                 excluded |-> \E e \in 1..Len(excluded_names) :
                                 excluded_names[e] = item.name]]

(***************************************************************************)
(* C25, as stated: in the overflow walk, an item that does not fit whole   *)
(* is included in truncated form only if truncation is enabled and the     *)
(* truncated content's estimated tokens exceed 10 (the remaining budget is *)
(* more than 10 tokens); when the remaining budget is between 1 and 10     *)
(* tokens and exclusion is enabled, the item is excluded.                  *)
(***************************************************************************)
C25_Original_TruncatedOnlyAboveFloor ==
    CallReturned =>
        LET places == Places
        IN  \A k \in DOMAIN places :
                LET place == places[k]
                IN  place.does_not_fit =>
                        /\ place.truncated =>
                              /\ TruncationEnabled
                              /\ estimate_tokens(place.as.content) > 10
                              /\ place.remaining > 10
                        /\ (place.remaining \in 1..10 /\ ExclusionEnabled) =>
                              ~place.selected /\ place.excluded

(***************************************************************************)
(* C25, amended: in the overflow walk with exclusion enabled, an item that *)
(* does not fit whole is included in truncated form exactly if truncation  *)
(* is enabled and the remaining budget is more than 10 tokens, the         *)
(* truncated content then having as many estimated tokens as the budget    *)
(* had left; otherwise, the remaining budget being between 1 and 10        *)
(* tokens included, the item is excluded. (With exclusion disabled an item *)
(* is also truncated below the floor, by the forced truncation.)           *)
(***************************************************************************)
C25_TruncatedAboveFloorElseExcluded ==
    /\ (CallReturned /\ ExclusionEnabled) =>
          LET places == Places
          IN  \A k \in DOMAIN places :
                  LET place == places[k]
                  IN  place.does_not_fit =>
                          /\ place.selected <=>
                                (TruncationEnabled /\ place.remaining > 10)
                          /\ place.selected =>
                                /\ place.truncated
                                /\ estimate_tokens(place.as.content) = place.remaining
                          /\ ~place.selected <=> place.excluded
    /\ (CallReturned /\ context_items = ScenarioInsufficient.items /\ max_tokens = 50
            /\ overflow_behavior = AllEnabled) =>
          /\ SelectedNames = {"must_include"}
          /\ InSummary("can_exclude")
          /\ InSummary("also_exclude")

\* The test's scenario has run: ten tokens were left for an item of 200,
\* which was excluded.
C25_Witness ==
    /\ CallReturned /\ context_items = ScenarioInsufficient.items /\ max_tokens = 50
    /\ overflow_behavior = AllEnabled
    /\ Places[2].remaining = 10
    /\ Places[2].does_not_fit
    /\ Places[2].excluded

(***************************************************************************)
(* C26: with exclusion disabled, an item that neither fits whole nor was   *)
(* truncated by the truncation step is force-truncated to the remaining    *)
(* budget whenever the remaining budget is > 0, whatever the 10-token      *)
(* floor, and is dropped silently (not selected, named in no exclusion     *)
(* summary) when the remaining budget is 0.                                *)
(***************************************************************************)
C26_ForcedTruncationOrSilentDrop ==
    (CallReturned /\ ~ExclusionEnabled) =>
        /\ ~HasSummary
        /\ ExcludedNames = <<>>
        /\ LET places == Places
           IN  \A k \in DOMAIN places :
                   LET place == places[k]
                   IN  (/\ place.does_not_fit
                        /\ ~(TruncationEnabled /\ place.remaining > 10)) =>
                           /\ place.remaining >= 0
                           /\ place.remaining > 0 =>
                                 /\ place.selected
                                 /\ place.as.content =
                                       SubSeq(place.item.content, 1, place.remaining * 4)
                                           \o "..."
                                 /\ estimate_tokens(place.as.content) = place.remaining
                           /\ place.remaining = 0 => ~place.selected

\* An item was force-truncated below the floor and a later one dropped
\* silently.
C26_Witness ==
    /\ CallReturned
    /\ ~ExclusionEnabled
    /\ LET places == Places
       IN  \E a, b \in DOMAIN places :
               /\ a < b
               /\ places[a].does_not_fit
               /\ places[a].remaining \in 1..10
               /\ places[a].truncated
               /\ places[b].does_not_fit
               /\ places[b].remaining = 0
               /\ ~places[b].selected
    /\ ~HasSummary

(***************************************************************************)
(* C29: when exclusion is enabled, manage_budget partitions its input:     *)
(* every input item is either selected, with its name and priority         *)
(* unchanged and a content that is the original or a prefix of it plus     *)
(* "...", or recorded as excluded, never both and never neither; the       *)
(* number of selected items plus the number of excluded names is the       *)
(* number of input items.                                                  *)
(***************************************************************************)
C29_SelectedOrExcluded ==
    (CallReturned /\ ExclusionEnabled) =>
        LET places == Places
        IN  /\ Len(Selected) + Len(ExcludedNames) = Len(context_items)
            /\ \A k \in DOMAIN places :
                  LET place == places[k]
                  IN  /\ place.selected # place.excluded
                      /\ place.selected =>
                            /\ [place.as EXCEPT !.content = place.item.content]
                                  = place.item
                            /\ \/ place.as.content = place.item.content
                               \/ IsPrefixWithMarker(place.as.content,
                                                     place.item.content)
                      /\ (Overflow /\ Flag(overflow_behavior, "summary")) =>
                            (place.excluded <=> InSummary(place.item.name))

\* An overflowing input of which one item was selected whole, one in
\* truncated form and one excluded.
C29_Witness ==
    /\ CallReturned
    /\ ExclusionEnabled
    /\ LET places == Places
       IN  \E a, b, c \in DOMAIN places :
               /\ places[a].selected /\ ~places[a].truncated
               /\ places[b].truncated
               /\ places[c].excluded

(***************************************************************************)
(* C30: with exclusion enabled, if manage_budget excludes an item, every   *)
(* later item in priority order whose estimated tokens are greater than or *)
(* equal to the excluded item's is excluded too, neither included whole    *)
(* nor truncated; only strictly smaller later items can be selected.       *)
(***************************************************************************)
C30_ExclusionMonotone ==
    (CallReturned /\ ExclusionEnabled) =>
        LET places == Places
        IN  \A a \in DOMAIN places :
                LET first == places[a]
                IN  first.excluded =>
                        \A b \in DOMAIN places :
                            LET later == places[b]
                            IN  (a < b /\ later.tokens >= first.tokens) =>
                                    ~later.selected /\ later.excluded

\* An item was excluded, a later and larger one too, and a later and
\* smaller one selected.
C30_Witness ==
    /\ CallReturned
    /\ ExclusionEnabled
    /\ LET places == Places
       IN  \E a, b, c \in DOMAIN places :
               /\ a < b /\ a < c
               /\ places[a].excluded
               /\ places[b].tokens >= places[a].tokens /\ places[b].excluded
               /\ places[c].tokens < places[a].tokens /\ places[c].selected

AllocationSucceeded == Past("BUDGET_ALLOCATE") /\ "BUDGET_ALLOCATE" \notin failed

\* The standards of the loader's result that were handed to the allocator.
AllocatedStandards ==
    {standards_result.standards[k].plugin_name : k \in 1..Len(standards_result.standards)}
    \cap {id \in {"typescript", "python"} :
            \E k \in 1..Len(standards_context_items) :
                standards_context_items[k].name = "standards:" \o id}

\* The item of the standard is among the selected items.
Survived(id) ==
    \E j \in 1..Len(Get(budget_result, "selected_items", <<>>)) :
        budget_result.selected_items[j].name = "standards:" \o id

HasHeading(id) == Contains(standards_context, "## Standards: " \o id)

C28_HoldsWhenSomethingSelected ==
    (AllocationSucceeded /\ Get(budget_result, "selected_items", <<>>) # <<>>) =>
        \A id \in AllocatedStandards : HasHeading(id) <=> Survived(id)

\* The same as C27, for the failures that leave run_sub_script by RuntimeError.
C27_HoldsWhenRuntimeError ==
    ("BUDGET_ALLOCATE" \in failed /\ Past("BUDGET_ALLOCATE")
        /\ ~StartsWith(ExclusionSummary, "Error: ")) =>
        /\ Get(budget_result, "selected_items", <<>>) = standards_context_items
        /\ ExclusionSummary = ""
        /\ pc = "DONE" => ~Contains(FinalContext, "Error: ")

(***************************************************************************)
(* scripts/roadmap-parser.py                                               *)
(*                                                                         *)
(* The grave accent that encloses an effort estimate cannot stand in a     *)
(* string of this module; the tilde is written in its place throughout.    *)
(***************************************************************************)
Tick == "~"

\* Python's None, and a str where None is possible too.
None == [none |-> TRUE]
Str(text) == [none |-> FALSE, text |-> text]

\* int() of a string of digits.
RECURSIVE ToInt(_)
ToInt(digits) ==
    IF digits = "" THEN 0
    ELSE LET last == SubSeq(digits, Len(digits), Len(digits))
             value == (CHOOSE k \in 1..10 : SubSeq("0123456789", k, k) = last) - 1
         IN  ToInt(SubSeq(digits, 1, Len(digits) - 1)) * 10 + value

\* Lines 42-54.
find_roadmap_path(file) == IF file.exists THEN file ELSE None

\* Lines 57-69: re.search of the first effort estimate between grave accents.
parse_effort_estimate(line) ==
    LET tagAt(i) == {t \in {"XS", "S", "M", "L", "XL"} :
                        /\ i + Len(t) + 1 <= Len(line)
                        /\ SubSeq(line, i, i + Len(t) + 1) = Tick \o t \o Tick}
        places == {i \in 1..Len(line) : tagAt(i) # {}}
    IN  IF places = {} THEN ""
        ELSE LET i == CHOOSE p \in places : \A q \in places : p <= q
             IN  CHOOSE t \in tagAt(i) : TRUE

\* Line 85, re.sub(r"\s*--\s*.*$", "", title): the title is cut in front of
\* the whitespace that precedes the first "--".
WithoutNote(title) ==
    LET places == {i \in 1..Len(title) :
                      LET j == RunEnd(title, i, Whitespace)
                      IN  j + 1 <= Len(title) /\ SubSeq(title, j, j + 1) = "--"}
    IN  IF places = {} THEN title
        ELSE SubSeq(title, 1, (CHOOSE p \in places : \A q \in places : p <= q) - 1)

\* Line 86, re.sub of an effort estimate at the end of the title.
WithoutEffort(title) ==
    LET ends(i) ==
            LET j == RunEnd(title, i, Whitespace)
            IN  \E t \in {"XS", "S", "M", "L", "XL"} :
                    /\ j + Len(t) + 1 <= Len(title)
                    /\ SubSeq(title, j, j + Len(t) + 1) = Tick \o t \o Tick
                    /\ RunEnd(title, j + Len(t) + 2, Whitespace) = Len(title) + 1
        places == {i \in 1..Len(title) : ends(i)}
    IN  IF places = {} THEN title
        ELSE SubSeq(title, 1, (CHOOSE p \in places : \A q \in places : p <= q) - 1)

\* Lines 72-88: re.match of r"\d+\.\s*\[\s*[xX]?\s*\]\s*(.+)".
parse_item_title(line) ==
    LET dot == RunEnd(line, 1, Digits)
        open == RunEnd(line, dot + 1, Whitespace)
        mark == RunEnd(line, open + 1, Whitespace)
        close == RunEnd(line, IF At(line, mark) \in {"x", "X"} THEN mark + 1 ELSE mark,
                       Whitespace)
        group == RunEnd(line, close + 1, Whitespace)
    IN  IF /\ dot > 1
           /\ At(line, dot) = "."
           /\ At(line, open) = "["
           /\ At(line, close) = "]"
           /\ close < Len(line)
        THEN Strip(WithoutEffort(WithoutNote(Strip(SubSeq(line, group, Len(line))))))
        ELSE ""

\* Lines 91-103: re.match of r"(\d+)\.\s*\[".
parse_item_number(line) ==
    LET dot == RunEnd(line, 1, Digits)
    IN  IF /\ dot > 1
           /\ At(line, dot) = "."
           /\ At(line, RunEnd(line, dot + 1, Whitespace)) = "["
        THEN ToInt(SubSeq(line, 1, dot - 1))
        ELSE 0

\* Line 124, re.sub(r"^Milestone\s+\d+:\s*", "", milestone_text).
WithoutMilestonePrefix(text) ==
    LET number == RunEnd(text, 10, Whitespace)
        colon == RunEnd(text, number, Digits)
    IN  IF /\ StartsWith(text, "Milestone")
           /\ number > 10
           /\ colon > number
           /\ At(text, colon) = ":"
        THEN SubSeq(text, RunEnd(text, colon + 1, Whitespace), Len(text))
        ELSE text

\* The lines in front of the item's (item_line_number counts from 0) that
\* are milestone headings, from the top.
MilestoneHeadings(lines, item_line_number) ==
    SelectSeq(SubSeq(lines, 1, Min(item_line_number, Len(lines))),
              LAMBDA line : StartsWith(line, "## "))

\* Variant: the first heading of the roadmap is taken.
find_current_milestone_First(content, item_line_number) ==
    LET headings == MilestoneHeadings(SplitLines(content), item_line_number)
    IN  IF headings = <<>> THEN ""
        ELSE WithoutMilestonePrefix(Strip(SubSeq(headings[1], 4, Len(headings[1]))))

\* Lines 106-127: the last heading in front of the item.
find_current_milestone(content, item_line_number) ==
    LET headings == MilestoneHeadings(SplitLines(content), item_line_number)
        last == headings[Len(headings)]
    IN  IF headings = <<>> THEN ""
        ELSE WithoutMilestonePrefix(Strip(SubSeq(last, 4, Len(last))))

\* Line 147, re.match of r"^\d+\.\s*\[\s*\]" on the stripped line.
IsUnchecked(line) ==
    LET dot == RunEnd(line, 1, Digits)
        open == RunEnd(line, dot + 1, Whitespace)
    IN  /\ dot > 1
        /\ At(line, dot) = "."
        /\ At(line, open) = "["
        /\ At(line, RunEnd(line, open + 1, Whitespace)) = "]"

\* The text of the file.
Content(file) == Join([k \in 1..Len(file.lines) |-> file.lines[k].text], "\n")

\* Lines 130-168: the pair (current item, error).
parse_roadmap(file) ==
    IF ~file.readable
    THEN [current_item |-> None, error |-> Str("Error reading roadmap: Permission denied")]
    ELSE LET content == Content(file)
             lines == SplitLines(content)
             unchecked == {n \in 1..Len(lines) : IsUnchecked(Strip(lines[n]))}
         IN  IF Strip(content) = "" \/ unchecked = {}
             THEN [current_item |-> None, error |-> None]
             ELSE LET n == CHOOSE u \in unchecked : \A v \in unchecked : u <= v
                      line == Strip(lines[n])
                      item_number == parse_item_number(line)
                      item_title == parse_item_title(line)
                  IN  IF item_number = 0 \/ item_title = ""
                      THEN [current_item |-> None,
                            error |-> Str("Malformed roadmap item format")]
                      ELSE [current_item |->
                                [item_number |-> item_number,
                                 item_title |-> item_title,
                                 effort_estimate |-> parse_effort_estimate(line),
                                 parent_milestone |->
                                     find_current_milestone(content, n - 1)],
                            error |-> None]

(***************************************************************************)
(* The roadmaps the parser is run on, line by line as their author wrote   *)
(* them: a milestone heading with its name, an item with its number, its   *)
(* checkbox and its title, or another line.                                *)
(***************************************************************************)
MaxLines == 3

Heading(text, milestone) == [text |-> text, kind |-> "heading", milestone |-> milestone]

Item(text, number, checked, title) ==
    [text |-> text, kind |-> "item", number |-> number, checked |-> checked,
     title |-> title]

Other(text) == [text |-> text, kind |-> "other"]

RoadmapLines ==
    {Other("# Product Roadmap"),
     Heading("## Milestone 1: Foundation", "Foundation"),
     Heading("## Features", "Features"),
     Other("### Later"),
     Item("1. [x] First task -- Done ~S~", 1, TRUE, "First task"),
     Item("4. [ ] Fourth task -- Current work ~L~", 4, FALSE, "Fourth task"),
     Item("  12. [] Twelfth task ~M~", 12, FALSE, "Twelfth task"),
     Other("- [ ] Loose end"),
     Item("0. [ ] Zeroth task", 0, FALSE, "Zeroth task"),
     Item("7. [ ] -- untitled ~S~", 7, FALSE, "")}

\* tests/test_e2e.py:415-442.
RoadmapAcrossMilestones ==
    <<Other("# Product Roadmap"),
      Other(""),
      Heading("## Milestone 1: Foundation", "Foundation"),
      Other(""),
      Item("1. [x] First task -- Done ~S~", 1, TRUE, "First task"),
      Item("2. [x] Second task -- Done ~M~", 2, TRUE, "Second task"),
      Other(""),
      Heading("## Milestone 2: Features", "Features"),
      Other(""),
      Item("3. [x] Third task -- Done ~S~", 3, TRUE, "Third task"),
      Item("4. [ ] Fourth task -- Current work ~L~", 4, FALSE, "Fourth task"),
      Item("5. [ ] Fifth task -- Not yet ~M~", 5, FALSE, "Fifth task"),
      Other("")>>

\* A roadmap of which every item is checked.
RoadmapAllChecked ==
    <<Heading("## Milestone 1: Foundation", "Foundation"),
      Item("1. [x] First task -- Done ~S~", 1, TRUE, "First task"),
      Item("2. [X] Second task", 2, TRUE, "Second task"),
      Other("")>>

Roadmaps ==
    UNION {[1..n -> RoadmapLines] : n \in 0..MaxLines}
    \cup {RoadmapAcrossMilestones, RoadmapAllChecked}

RoadmapFiles ==
    {[exists |-> FALSE]}
    \cup {[exists |-> TRUE, readable |-> TRUE, lines |-> r] : r \in Roadmaps}
    \cup {[exists |-> TRUE, readable |-> FALSE, lines |-> <<>>]}

RoadmapInit ==
    /\ BudgetIdle
    /\ PipelineIdle
    /\ ClassifierIdle
    /\ StandardsIdle
    /\ ValidatorIdle
    /\ roadmap_file \in RoadmapFiles
    /\ roadmap_output = <<>>
    /\ rpc = "input"

\* roadmap-parser.py's main, lines 171-200, on an input object with "cwd".
ParseRoadmap ==
    /\ rpc = "input"
    /\ roadmap_output' =
          IF find_roadmap_path(roadmap_file) = None
          THEN [current_item |-> None, error |-> None]
          ELSE parse_roadmap(roadmap_file)
    /\ rpc' = "parsed"
    /\ UNCHANGED roadmap_file
    /\ UNCHANGED <<bvars, pvars, cvars, svars, hvars>>

RoadmapNext == ParseRoadmap

RoadmapSpec == RoadmapInit /\ [][RoadmapNext]_vars

(***************************************************************************)
(* Vocabulary of the roadmap parser's properties.                          *)
(***************************************************************************)
RoadmapParsed == rpc = "parsed" /\ roadmap_file.exists /\ roadmap_file.readable

Written == roadmap_file.lines

\* The places of the unchecked numbered items, as written.
UncheckedPlaces ==
    {n \in 1..Len(Written) : Written[n].kind = "item" /\ ~Written[n].checked}

FirstUnchecked == CHOOSE n \in UncheckedPlaces : \A m \in UncheckedPlaces : n <= m

\* The name of the nearest milestone heading in front of place n, as written.
MilestoneOf(n) ==
    LET headings == {h \in 1..(n - 1) : Written[h].kind = "heading"}
    IN  IF headings = {} THEN ""
        ELSE Written[CHOOSE h \in headings : \A g \in headings : g <= h].milestone

CurrentItem == roadmap_output.current_item

IsFirstUnchecked(item) ==
    /\ item # None
    /\ item.item_number = Written[FirstUnchecked].number
    /\ item.item_title = Written[FirstUnchecked].title
    /\ item.parent_milestone = MilestoneOf(FirstUnchecked)

(***************************************************************************)
(* C24, as stated: the roadmap parser returns as current item the first    *)
(* unchecked numbered item of the roadmap, with that item's number and     *)
(* title and, as milestone, the nearest "## " heading in front of it       *)
(* without a "Milestone N:" prefix; when every item is checked it returns  *)
(* no current item and no error.                                           *)
(***************************************************************************)
C24_Original_FirstUncheckedItem ==
    RoadmapParsed =>
        IF UncheckedPlaces = {}
        THEN roadmap_output = [current_item |-> None, error |-> None]
        ELSE IsFirstUnchecked(CurrentItem) /\ roadmap_output.error = None

(***************************************************************************)
(* C24, amended: the roadmap parser returns as current item the first      *)
(* unchecked numbered item of the roadmap, with that item's number and     *)
(* title and, as milestone, the nearest "## " heading in front of it       *)
(* without a "Milestone N:" prefix ("" when there is none), provided that  *)
(* item's number is not 0 and its title is not empty; when it is, there is *)
(* no current item and the error is "Malformed roadmap item format",       *)
(* whatever items follow. Items 1-3 checked and item 4 unchecked under     *)
(* "Milestone 2: Features" yields number 4, title "Fourth task", milestone *)
(* "Features"; when every item is checked there is no current item and no  *)
(* error.                                                                  *)
(***************************************************************************)
C24_FirstWellFormedUncheckedItem ==
    /\ RoadmapParsed =>
          IF UncheckedPlaces = {}
          THEN roadmap_output = [current_item |-> None, error |-> None]
          ELSE IF Written[FirstUnchecked].number = 0 \/ Written[FirstUnchecked].title = ""
          THEN roadmap_output = [current_item |-> None,
                                 error |-> Str("Malformed roadmap item format")]
          ELSE IsFirstUnchecked(CurrentItem) /\ roadmap_output.error = None
    /\ (RoadmapParsed /\ Written = RoadmapAcrossMilestones) =>
          /\ CurrentItem # None
          /\ CurrentItem.item_number = 4
          /\ CurrentItem.item_title = "Fourth task"
          /\ CurrentItem.parent_milestone = "Features"

\* The roadmap of the test has been parsed and its fourth item returned.
C24_Witness ==
    /\ RoadmapParsed
    /\ Written = RoadmapAcrossMilestones
    /\ CurrentItem # None
    /\ CurrentItem.item_number = 4

(***************************************************************************)
(* hooks/standards-validator.py                                            *)
(*                                                                         *)
(* The project is what the hook finds under <cwd>: the dict that           *)
(* yaml.safe_load makes of .red64/config.yaml ({} without the file) and    *)
(* the plugin directories under plugins, each with its skill files in the  *)
(* order in which skills_dir.glob("*.md") yields them. The grave accents   *)
(* of a code fence are written as tildes.                                  *)
(***************************************************************************)
EDIT_WRITE_TOOLS == {"Edit", "Write"}

\* Lines 80-90.
get_enabled_standards(cfg) == Get(Get(cfg, "standards", EmptyDict), "enabled", <<>>)

\* Lines 127-138.
file_matches_patterns(file_path, patterns) ==
    \E k \in 1..Len(patterns) : fnmatch(PathName(file_path), patterns[k])

\* "^" under re.MULTILINE.
IsLineStart(text, i) == i = 1 \/ At(text, i - 1) = "\n"

\* Lines 150-154: where a match of r"^##\s*DON'T\s*$" (MULTILINE, IGNORECASE)
\* that begins at position i ends; 0 when there is none. The last \s* gives
\* back what it must for "$" to stand in front of a newline or at the end.
DontHeadingEnd(text, i) ==
    LET word == RunEnd(text, i + 2, Whitespace)
        run == RunEnd(text, word + 5, Whitespace)
        ends == {e \in (word + 5)..run : e = Len(text) + 1 \/ At(text, e) = "\n"}
    IN  IF /\ IsLineStart(text, i)
           /\ i + 1 <= Len(text)
           /\ SubSeq(text, i, i + 1) = "##"
           /\ word + 4 <= Len(text)
           /\ Lower(SubSeq(text, word, word + 4)) = "don't"
           /\ ends # {}
        THEN CHOOSE e \in ends : \A f \in ends : f <= e
        ELSE 0

\* Lines 141-164.
extract_dont_section(skill_content) ==
    LET starts == {i \in 1..Len(skill_content) : DontHeadingEnd(skill_content, i) # 0}
        start_pos == DontHeadingEnd(skill_content,
                                    CHOOSE i \in starts : \A j \in starts : i <= j)
        next == {n \in start_pos..(Len(skill_content) - 2) :
                    /\ IsLineStart(skill_content, n)
                    /\ SubSeq(skill_content, n, n + 1) = "##"
                    /\ At(skill_content, n + 2) \in Whitespace}
        end == IF next = {} THEN Len(skill_content)
               ELSE (CHOOSE n \in next : \A m \in next : n <= m) - 1
    IN  IF starts = {} THEN ""
        ELSE IF start_pos > end THEN ""
        ELSE Strip(SubSeq(skill_content, start_pos, end))

Fence == Tick \o Tick \o Tick

\* Lines 176-178: the matches of the fence pattern (\w*, a newline, the
\* shortest text up to the next fence) from the position on, stripped, the
\* empty ones left out.
RECURSIVE CodeExamplesFrom(_, _)
CodeExamplesFrom(text, from) ==
    LET fences == {a \in 1..(Len(text) - 2) : SubSeq(text, a, a + 2) = Fence}
        body(a) == RunEnd(text, a + 3, WordChars) + 1
        closes(a) == {c \in fences : c >= body(a)}
        opens == {a \in fences :
                    a >= from /\ At(text, body(a) - 1) = "\n" /\ closes(a) # {}}
    IN  IF opens = {} THEN <<>>
        ELSE LET a == CHOOSE x \in opens : \A y \in opens : x <= y
                 c == CHOOSE x \in closes(a) : \A y \in closes(a) : x <= y
                 code == Strip(SubSeq(text, body(a), c - 1))
             IN  (IF code # "" THEN <<code>> ELSE <<>>) \o CodeExamplesFrom(text, c + 3)

\* Lines 167-178.
extract_code_examples(dont_section) == CodeExamplesFrom(dont_section, 1)

\* Lines 203-207: the patterns one document contributes, given its DON'T
\* section.
SectionPatterns(dont_section) ==
    IF dont_section # ""
    THEN <<dont_section>> \o extract_code_examples(dont_section)
    ELSE <<>>

\* Lines 198-207: the patterns of the files in the directory's order.
RECURSIVE DontPatternsOf(_)
DontPatternsOf(files) ==
    IF files = <<>> THEN <<>>
    ELSE (IF Head(files).readable
          THEN SectionPatterns(extract_dont_section(Head(files).content))
          ELSE <<>>)
         \o DontPatternsOf(Tail(files))

\* The cache with the entry added.
Cached(cache, cache_key, patterns) ==
    [k \in DOMAIN cache \cup {cache_key} |-> IF k = cache_key THEN patterns ELSE cache[k]]

\* Variant: every plugin has the same cache key.
load_dont_patterns_from_plugin_OneKey(plugin_path, cache_key, cache) ==
    IF "plugins" \in DOMAIN cache
    THEN [patterns |-> cache["plugins"], cache |-> cache, hit |-> 1]
    ELSE IF ~plugin_path.skills_dir.exists
    THEN [patterns |-> <<>>, cache |-> cache, hit |-> 0]
    ELSE LET patterns == DontPatternsOf(plugin_path.skills_dir.files)
         IN  [patterns |-> patterns, cache |-> Cached(cache, "plugins", patterns), hit |-> 0]

\* Lines 180-211: the patterns returned, the cache afterwards and, for the
\* history, whether the patterns came from the cache (1) or not (0).
load_dont_patterns_from_plugin(plugin_path, cache_key, cache) ==
    IF cache_key \in DOMAIN cache
    THEN [patterns |-> cache[cache_key], cache |-> cache, hit |-> 1]
    ELSE IF ~plugin_path.skills_dir.exists
    THEN [patterns |-> <<>>, cache |-> cache, hit |-> 0]
    ELSE LET patterns == DontPatternsOf(plugin_path.skills_dir.files)
         IN  [patterns |-> patterns, cache |-> Cached(cache, cache_key, patterns), hit |-> 0]

\* Lines 231-237.
VIOLATION_CHECKS ==
    <<[check_pattern |-> ": any", violation_name |-> "any type usage",
       suggestion |-> "Use explicit types instead of 'any'."],
      [check_pattern |-> ": any =", violation_name |-> "any type usage",
       suggestion |-> "Use explicit types instead of 'any'."],
      [check_pattern |-> ": any;", violation_name |-> "any type usage",
       suggestion |-> "Use explicit types instead of 'any'."],
      [check_pattern |-> "var ", violation_name |-> "var keyword usage",
       suggestion |-> "Use 'const' or 'let' instead of 'var'."],
      [check_pattern |-> "eval(", violation_name |-> "eval() usage",
       suggestion |-> "Avoid using eval() for security reasons."]>>

\* str.replace(" ", "").
RECURSIVE WithoutSpaces(_)
WithoutSpaces(text) ==
    IF text = "" THEN ""
    ELSE (IF Head(text) = " " THEN "" ELSE Head(text)) \o WithoutSpaces(Tail(text))

\* Lines 240-243: the check's text is in the content and, spaces apart, in
\* one of the patterns.
CheckFires(check, content, patterns) ==
    /\ Contains(Lower(content), check.check_pattern)
    /\ \E k \in 1..Len(patterns) :
          Contains(WithoutSpaces(Lower(patterns[k])), WithoutSpaces(check.check_pattern))

\* Lines 276-279.
CRITICAL_PATTERNS == <<"single-letter variable", "hungarian notation">>

\* re.search of r"\bconst [a-z] =" and of r"\b(str|arr|obj|int|bool)[A-Z]".
CriticalRegexMatches(n, content) ==
    IF n = 1
    THEN \E i \in 1..(Len(content) - 8) :
            /\ Boundary(content, i)
            /\ SubSeq(content, i, i + 5) = "const "
            /\ At(content, i + 6) \in Chars(LowerCase)
            /\ SubSeq(content, i + 7, i + 8) = " ="
    ELSE \E i \in 1..Len(content) :
            \E prefix \in {"str", "arr", "obj", "int", "bool"} :
                /\ Boundary(content, i)
                /\ i + Len(prefix) <= Len(content)
                /\ SubSeq(content, i, i + Len(prefix) - 1) = prefix
                /\ At(content, i + Len(prefix)) \in Chars(UpperCase)

\* Lines 262-287.
pattern_matches_content(pattern, content) ==
    \E n \in 1..Len(CRITICAL_PATTERNS) :
        /\ Contains(Lower(pattern), CRITICAL_PATTERNS[n])
        /\ CriticalRegexMatches(n, content)

Block(reason, suggestion) ==
    [decision |-> "block", reason |-> reason, suggestion |-> suggestion]

Allow == [decision |-> "allow"]

\* Lines 214-259.
check_content_against_patterns(content, patterns, plugin_name) ==
    LET fired == {n \in 1..Len(VIOLATION_CHECKS) :
                    CheckFires(VIOLATION_CHECKS[n], content, patterns)}
        matching == {k \in 1..Len(patterns) : pattern_matches_content(patterns[k], content)}
    IN  IF fired # {}
        THEN LET check == VIOLATION_CHECKS[CHOOSE n \in fired : \A m \in fired : n <= m]
             IN  Block("Violates " \o plugin_name \o " standard: " \o check.violation_name,
                       check.suggestion)
        ELSE IF matching # {}
        THEN LET pattern == patterns[CHOOSE k \in matching : \A m \in matching : k <= m]
             IN  Block("Violates " \o plugin_name \o " standard: matches DON'T pattern",
                       "Review the DON'T pattern: "
                           \o (IF Len(pattern) > 100
                               THEN SubSeq(pattern, 1, 100) \o "..."
                               ELSE pattern))
        ELSE None

\* Variant: a standard applies whatever the file's name.
find_applicable_standards_AnyFile(file_path, enabled, plugins_dir) ==
    SelectSeq(enabled, LAMBDA standard_name : PluginPath(plugins_dir, standard_name).exists)

\* Lines 290-316: the names of the enabled standards that apply, in order.
find_applicable_standards(file_path, enabled, plugins_dir) ==
    SelectSeq(enabled,
              LAMBDA standard_name :
                  /\ PluginPath(plugins_dir, standard_name).exists
                  /\ file_matches_patterns(
                         file_path,
                         get_file_patterns(
                             load_standards_json(PluginPath(plugins_dir, standard_name)))))

\* Variant: the standards are scanned from the last to the first.
RECURSIVE CheckStandards_LastFirst(_, _, _, _)
CheckStandards_LastFirst(applicable, plugins_dir, content, cache) ==
    IF applicable = <<>> THEN [output |-> Allow, cache |-> cache, hits |-> 0]
    ELSE LET plugin_name == applicable[Len(applicable)]
             loaded == load_dont_patterns_from_plugin(
                           PluginPath(plugins_dir, plugin_name), plugin_name, cache)
             violation == check_content_against_patterns(content, loaded.patterns,
                                                         plugin_name)
             others == CheckStandards_LastFirst(SubSeq(applicable, 1, Len(applicable) - 1),
                                                plugins_dir, content, loaded.cache)
         IN  IF loaded.patterns # <<>> /\ violation # None
             THEN [output |-> violation, cache |-> loaded.cache, hits |-> loaded.hit]
             ELSE [others EXCEPT !.hits = @ + loaded.hit]

\* Lines 357-368: the loop over the applicable standards.  CheckLoaded is the
\* body of the loop for one standard whose patterns have been loaded
\* (lines 361-366); the standards after it are checked with the cache the
\* load left behind.
RECURSIVE CheckStandards(_, _, _, _)
CheckLoaded(plugin_name, loaded, later, plugins_dir, content) ==
    LET violation == check_content_against_patterns(content, loaded.patterns, plugin_name)
    IN  IF loaded.patterns # <<>> /\ violation # None
        THEN [output |-> violation, cache |-> loaded.cache, hits |-> loaded.hit]
        ELSE [CheckStandards(later, plugins_dir, content, loaded.cache)
                 EXCEPT !.hits = @ + loaded.hit]

CheckStandards(applicable, plugins_dir, content, cache) ==
    IF applicable = <<>> THEN [output |-> Allow, cache |-> cache, hits |-> 0]
    ELSE CheckLoaded(Head(applicable),
                     load_dont_patterns_from_plugin(
                         PluginPath(plugins_dir, Head(applicable)), Head(applicable), cache),
                     Tail(applicable), plugins_dir, content)

\* Lines 319-368: the output, the cache afterwards and, for the history, the
\* number of pattern lists that came from the cache.
validate_tool_use(input_data, proj, cache) ==
    LET tool_name == Get(input_data, "tool_name", "")
        tool_input == Get(input_data, "tool_input", EmptyDict)
        file_path == Get(tool_input, "file_path", "")
        enabled == get_enabled_standards(proj.config)
        applicable == find_applicable_standards(file_path, enabled, proj.plugins)
        content == Get(tool_input, "content", "")
        allowed == [output |-> Allow, cache |-> cache, hits |-> 0]
    IN  IF tool_name \notin EDIT_WRITE_TOOLS THEN allowed
        ELSE IF file_path = "" THEN allowed
        ELSE IF enabled = <<>> THEN allowed
        ELSE IF applicable = <<>> THEN allowed
        ELSE IF content = "" THEN allowed
        ELSE CheckStandards(applicable, proj.plugins, content, cache)

(***************************************************************************)
(* The projects the hook is run in and the inputs it is given.             *)
(***************************************************************************)
MaxCalls == 2

\* tests/test_standards_validator.py:375-397, the two skill files.
StrictSkill ==
    "# Strict Rules\n\n## DO\n\nAlways use explicit types.\n\n## DON'T\n\nNever use var keyword.\n\n~~~typescript\nvar x = 1;\n~~~\n"

RelaxedSkill ==
    "# Relaxed Rules\n\n## DO\n\nWrite clean code.\n\n## DON'T\n\nAvoid obvious issues.\n"

\* A skill file whose section forbids the any type and single-letter names,
\* and names var behind the section's end.
TypesSkill ==
    "## don't\nNo : any annotations.\nNo single-letter variable names.\n## Notes\nvar is fine here.\n"

\* A skill file without the section.
NoSectionSkill == "# Rules\n\nUse var and eval( sparingly.\n"

ValidatorPluginDirs ==
    {NoPlugin,
     PluginDir([file_patterns |-> <<"*.ts">>], SkillsDir(<<SkillFile("strict", StrictSkill)>>)),
     PluginDir([file_patterns |-> <<"*.ts">>], SkillsDir(<<SkillFile("relaxed", RelaxedSkill)>>)),
     PluginDir([file_patterns |-> <<"*.py", "*.ts">>],
               SkillsDir(<<UnreadableFile("naming"), SkillFile("rules", NoSectionSkill),
                           SkillFile("types", TypesSkill)>>)),
     PluginDir([file_patterns |-> <<"*.py">>], SkillsDir(<<SkillFile("strict", StrictSkill)>>)),
     PluginDir([file_patterns |-> <<"*.ts">>], NoSkillsDir)}

ValidatorConfigs ==
    {EmptyDict}
    \cup {[version |-> "1.0", standards |-> [enabled |-> e, token_budget_priority |-> 3]] :
            e \in {<<>>, <<"strict">>, <<"strict", "relaxed">>, <<"relaxed", "strict">>}}

Projects ==
    {[config |-> c, plugins |-> [strict |-> s, relaxed |-> r]] :
        c \in ValidatorConfigs, s \in ValidatorPluginDirs, r \in ValidatorPluginDirs}

ValidatorInputs ==
    {[tool_name |-> t, tool_input |-> [file_path |-> "/p/src/app.ts", content |-> c]] :
        t \in {"Write"},
        c \in {"var x = 1;", "const x = 1;", "let a: any; var b;", "let count = 1;"}}
    \cup {[tool_name |-> "Write",
           tool_input |-> [file_path |-> "README.md", content |-> "var x = 1;"]],
          [tool_name |-> "Write",
           tool_input |-> [file_path |-> "tools/run.py", content |-> "Var x = eval(s)"]],
          [tool_name |-> "Read",
           tool_input |-> [file_path |-> "/p/src/app.ts", content |-> "var x = 1;"]],
          [tool_name |-> "Edit",
           tool_input |-> [file_path |-> "/p/src/app.ts", content |-> "var x = 1;"]],
          [tool_name |-> "Edit",
           tool_input |-> [file_path |-> "/p/src/app.ts", old_string |-> "let x",
                           new_string |-> "var x"]],
          [tool_name |-> "Write", tool_input |-> [content |-> "var x = 1;"]]}

\* The process has started: the cache is empty (line 43).
ValidatorInit ==
    /\ BudgetIdle
    /\ PipelineIdle
    /\ ClassifierIdle
    /\ StandardsIdle
    /\ RoadmapIdle
    /\ project \in Projects
    /\ hook_input = <<>>
    /\ skills_cache = EmptyDict
    /\ hook_output = <<>>
    /\ calls = 0
    /\ cache_hits = 0

\* One call of validate_tool_use (lines 319-368) in the process.
Validate ==
    /\ calls >= 0
    /\ calls < MaxCalls
    /\ \E input_data \in ValidatorInputs :
          \E result \in {validate_tool_use(input_data, project, skills_cache)} :
              /\ hook_input' = input_data
              /\ hook_output' = result.output
              /\ skills_cache' = result.cache
              /\ cache_hits' = result.hits
    /\ calls' = calls + 1
    /\ UNCHANGED project
    /\ UNCHANGED <<bvars, pvars, cvars, svars, rvars>>

ValidatorNext == Validate

ValidatorSpec == ValidatorInit /\ [][ValidatorNext]_vars

(***************************************************************************)
(* Vocabulary of the validator's properties.                               *)
(***************************************************************************)
Validated == calls > 0

ToolName == Get(hook_input, "tool_name", "")
TargetFile == Get(Get(hook_input, "tool_input", EmptyDict), "file_path", "")
ProposedContent == Get(Get(hook_input, "tool_input", EmptyDict), "content", "")

\* The enabled list as the configuration file has it.
EnabledInConfig == Get(Get(project.config, "standards", EmptyDict), "enabled", <<>>)

\* The standard's plugin is there and one of its file_patterns matches the
\* target file's name.
AppliesToTarget(name) ==
    LET plugin == PluginPath(project.plugins, name)
    IN  /\ plugin.exists
        /\ \E k \in 1..Len(Get(plugin.standards_json, "file_patterns", <<>>)) :
              fnmatch(PathName(TargetFile), plugin.standards_json.file_patterns[k])

ApplicablePlaces == {k \in 1..Len(EnabledInConfig) : AppliesToTarget(EnabledInConfig[k])}

\* The patterns of the standard's documents, read anew.
PatternsRead(name) ==
    LET plugin == PluginPath(project.plugins, name)
    IN  IF plugin.exists /\ plugin.skills_dir.exists
        THEN DontPatternsOf(plugin.skills_dir.files)
        ELSE <<>>

\* What the proposed content violates of the standard, None when nothing.
ViolationOf(name) ==
    IF ProposedContent = "" THEN None
    ELSE check_content_against_patterns(ProposedContent, PatternsRead(name), name)

\* The places of the enabled list whose standard applies and is violated.
Violators == {k \in ApplicablePlaces : ViolationOf(EnabledInConfig[k]) # None}

FirstViolator == EnabledInConfig[CHOOSE k \in Violators : \A j \in Violators : k <= j]

(***************************************************************************)
(* C21: the validator returns block only if the tool name is Edit or Write *)
(* and at least one enabled standard's file_patterns match the target      *)
(* file's name: for any other tool name, when no standards are enabled, or *)
(* when no enabled standard matches the file name, the decision is allow   *)
(* whatever the content.                                                   *)
(***************************************************************************)
C21_BlockOnlyForApplicableEdit ==
    Validated =>
        /\ hook_output.decision \in {"allow", "block"}
        /\ hook_output.decision = "block" =>
              /\ ToolName \in {"Edit", "Write"}
              /\ ApplicablePlaces # {}
        /\ (\/ ToolName \notin {"Edit", "Write"}
            \/ EnabledInConfig = <<>>
            \/ ApplicablePlaces = {}) => hook_output = Allow

\* A Write of a file that an enabled standard applies to has been blocked,
\* in a project whose other standard does not apply to the file.
C21_Witness ==
    /\ Validated
    /\ hook_output.decision = "block"
    /\ ToolName = "Write"
    /\ Cardinality(ApplicablePlaces) = 1
    /\ Len(EnabledInConfig) = 2

(***************************************************************************)
(* C22: when the proposed content violates more than one applicable        *)
(* standard, the validator returns the first violation found scanning the  *)
(* standards in enabled order, and within a standard the fixed substring   *)
(* checks in table order before the heuristic checks: the block reason     *)
(* names the earliest enabled applicable standard that has a violation;    *)
(* when no applicable standard has a violation the decision is allow.      *)
(***************************************************************************)
C22_FirstViolationInEnabledOrder ==
    (Validated /\ ToolName \in {"Edit", "Write"}) =>
        IF Violators = {}
        THEN hook_output = Allow
        ELSE LET fired == {n \in 1..Len(VIOLATION_CHECKS) :
                              CheckFires(VIOLATION_CHECKS[n], ProposedContent,
                                         PatternsRead(FirstViolator))}
                 named == "Violates " \o FirstViolator \o " standard: "
             IN  /\ hook_output.decision = "block"
                 /\ hook_output = ViolationOf(FirstViolator)
                 /\ hook_output.reason =
                       IF fired # {}
                       THEN named \o VIOLATION_CHECKS[CHOOSE n \in fired :
                                                         \A m \in fired : n <= m].violation_name
                       ELSE named \o "matches DON'T pattern"

\* The content violates both applicable standards, each in its own way, and
\* the block names the first.
C22_Witness ==
    /\ Validated
    /\ ToolName = "Write"
    /\ Cardinality(Violators) = 2
    /\ \E j, k \in Violators :
          /\ j < k
          /\ ViolationOf(EnabledInConfig[j]).suggestion
                # ViolationOf(EnabledInConfig[k]).suggestion
          /\ hook_output.reason = ViolationOf(EnabledInConfig[j]).reason

(***************************************************************************)
(* The validator with the cache disabled: the patterns of a standard are   *)
(* read anew whenever they are needed.                                     *)
(***************************************************************************)
RECURSIVE CheckStandardsUncached(_, _)
CheckStandardsUncached(applicable, content) ==
    IF applicable = <<>> THEN Allow
    ELSE LET violation == check_content_against_patterns(
                              content, PatternsRead(Head(applicable)), Head(applicable))
         IN  IF PatternsRead(Head(applicable)) # <<>> /\ violation # None
             THEN violation
             ELSE CheckStandardsUncached(Tail(applicable), content)

ValidateUncached(input_data) ==
    LET tool_input == Get(input_data, "tool_input", EmptyDict)
        file_path == Get(tool_input, "file_path", "")
        content == Get(tool_input, "content", "")
        enabled == get_enabled_standards(project.config)
        applicable == find_applicable_standards(file_path, enabled, project.plugins)
    IN  IF \/ Get(input_data, "tool_name", "") \notin EDIT_WRITE_TOOLS
           \/ file_path = ""
           \/ applicable = <<>>
           \/ content = ""
        THEN Allow
        ELSE CheckStandardsUncached(applicable, content)

(***************************************************************************)
(* C23: the per-process cache of DON'T patterns is transparent: for any    *)
(* sequence of validations within one process over an unchanged document   *)
(* store, every decision returned with the cache in use is identical to    *)
(* the decision of the same validator with the cache disabled, and what    *)
(* the cache holds for a standard is what reading its documents gives.     *)
(***************************************************************************)
C23_CacheTransparent ==
    /\ Validated => hook_output = ValidateUncached(hook_input)
    /\ calls >= 0 =>
          \A name \in DOMAIN skills_cache : skills_cache[name] = PatternsRead(name)

\* A later call of the process took the patterns of both standards from the
\* cache and blocked the edit.
C23_Witness ==
    /\ calls = MaxCalls
    /\ cache_hits = 2
    /\ hook_output.decision = "block"

====
